---- MODULE Spec2Model ----
(***************************************************************************)
(* gh-manager: the signed deletion plan (internal/planfile), the           *)
(* execution manifest (internal/manifest) and the executor                 *)
(* (internal/executor, Executor.Execute) as a state machine.               *)
(*                                                                         *)
(* Spec      the executor: consecutive Execute invocations against a file  *)
(*           system that keeps the manifests, with the process killed at   *)
(*           any step and collaborator calls and file writes that may fail.*)
(* SpecPlan  the plan file: New, Sign, one edit of the signed plan,        *)
(*           Validate.                                                     *)
(* SpecTUI   the terminal interface (internal/tui): RunApp, then the keys  *)
(*           pressed and the results of the commands it started.           *)
(*                                                                         *)
(* A configuration field, a collaborator reference, the plan or the input  *)
(* stream is drawn at the step of Execute that first uses it; until then   *)
(* it holds its Go zero value (a collaborator reference not yet read shows *)
(* as wired).                                                              *)
(***************************************************************************)
EXTENDS Integers, Sequences, FiniteSets, TLC

(***************************************************************************)
(* Bounds                                                                  *)
(***************************************************************************)
\* Number of Execute invocations in one behaviour of Spec (a killed one
\* counts); a behaviour of SpecLong has one more.
MaxRuns == 2

\* Number of injected failures in one behaviour: collaborator calls that
\* return an error, file-system operations that fail, and process kills.
MaxFaults == 2

\* The longest list of target records handed to planfile.New.
MaxTargets == 2

\* The longest text typed into a popup prompt of the terminal interface.
MaxInput == 2

\* The longest text typed into a field of a command form (0: the fields keep
\* the empty text they open with); at most one field is filled.
MaxFormText == 0

\* The longest table filter.
MaxFilter == 1

\* The furthest a result popup is scrolled.
MaxScroll == 1

\* Number of keys pressed in one behaviour of the terminal interface.
MaxKeys == 11

\* Number of injected failures in one behaviour of the longer chain of
\* invocations (SpecLong).
MaxChainFaults == 1

(***************************************************************************)
(* Program constants                                                       *)
(***************************************************************************)
ModeDelete == "delete"
ModeBackup == "backup"
DefaultMaxDeleteRetries == 3
\* 100 * 1024 * 1024
archiveMaxBundleSizeBytes == 104857600

StatusPending == "pending"
StatusBackupOK == "backup_ok"
StatusDeleted == "deleted"
StatusBackupFailed == "backup_failed"
StatusDeleteFailed == "delete_failed"

DryRunMarker == "<dry-run>"

(***************************************************************************)
(* Inputs                                                                  *)
(***************************************************************************)
\* cfg.Mode as the caller passes it.
Modes == {"", ModeDelete, ModeBackup, "purge"}

\* cfg.MaxDeleteRetries as the caller passes it.
RetryChoices == {-1, 0, 1, 2}

\* cfg.BackupDir: NoDir is the empty string, 0 an explicit directory outside
\* the home-directory naming convention.
NoDir == -1
ExplicitDir == 0
BackupDirs == {NoDir, ExplicitDir}

\* Backup roots: the explicit directory and the home-directory roots
\* gh-manager-archive-<timestamp>, named by the clock value of their creation
\* (the clock reads 1 before the first invocation of Spec, 0 before the
\* first one of SpecLong).
HomeRoots == 1..(MaxRuns + 1)
Roots == {ExplicitDir} \cup HomeRoots

\* Plans handed to Execute: PlanA and PlanB are two signed plans; PlanT
\* carries PlanA's fingerprint with one target missing (Execute itself does
\* not validate the plan it is given).
PlanA == [Fingerprint |-> "fpA", Actor |-> "alice", Repos |-> <<"alice/r1", "alice/r2">>]
PlanB == [Fingerprint |-> "fpB", Actor |-> "alice", Repos |-> <<"alice/r1">>]
PlanT == [Fingerprint |-> "fpA", Actor |-> "alice", Repos |-> <<"alice/r2">>]
Plans == {PlanA, PlanB, PlanT}
NoPlan == [Fingerprint |-> "", Actor |-> "", Repos |-> <<>>]

\* Target records handed to planfile.New: three repositories, and a second
\* listing of the first one under the same full name.
RepoR1 ==
  [Owner |-> "alice", Name |-> "r1", FullName |-> "alice/r1", Description |-> "",
   IsPrivate |-> FALSE, IsFork |-> FALSE, IsArchived |-> FALSE, UpdatedAt |-> "2026-01-01"]
RepoR1b == [RepoR1 EXCEPT !.Description = "relisted"]
RepoR2 == [RepoR1 EXCEPT !.Name = "r2", !.FullName = "alice/r2", !.IsPrivate = TRUE]
RepoB1 == [RepoR1 EXCEPT !.Owner = "bob", !.FullName = "bob/r1"]
RepoRecords == {RepoR1, RepoR1b, RepoR2, RepoB1}

TargetLists == UNION {[1..n -> RepoRecords] : n \in 0..MaxTargets}

\* The sizes of the bundle files CreateBundle leaves behind: the archive
\* size limit and one byte more.
BundleSizes == {archiveMaxBundleSizeBytes, archiveMaxBundleSizeBytes + 1}

\* The clock readings handed to planfile.New: one instant in two locations.
Nows == {[year |-> 2026, zone |-> 0], [year |-> 2026, zone |-> 120]}

\* Secrets, as byte sequences.
Secrets == {<<>>, <<1>>, <<1, 0>>, <<2>>}

\* Contents of the input stream, as sequences of characters.
ConfirmInputs ==
  { <<"A","C","C","E","P","T","\n">>,
    <<"c","o","n","f","i","r","m","\n">>,
    <<" ","A","c","c","e","p","t"," ","\r","\n">>,
    <<"C","O","N","F","I","R","M">>,
    <<>>,
    <<"\n","A","C","C","E","P","T","\n">>,
    <<"y","e","s","\n">>,
    <<"A","C","C","E","P","T","E","D","\n">>,
    <<"n","o","\n","C","O","N","F","I","R","M","\n">> }

(***************************************************************************)
(* strings: ToUpper, TrimSpace, bufio.Reader.ReadString                     *)
(***************************************************************************)
ToUpperChar(c) ==
  CASE c = "a" -> "A" [] c = "c" -> "C" [] c = "d" -> "D" [] c = "e" -> "E"
    [] c = "f" -> "F" [] c = "i" -> "I" [] c = "m" -> "M" [] c = "n" -> "N"
    [] c = "o" -> "O" [] c = "p" -> "P" [] c = "r" -> "R" [] c = "s" -> "S"
    [] c = "t" -> "T" [] c = "y" -> "Y" [] OTHER -> c

ToUpper(s) == [k \in 1..Len(s) |-> ToUpperChar(s[k])]

IsSpace(c) == c \in {" ", "\n", "\r", "\t"}

RECURSIVE TrimLeft(_)
TrimLeft(s) == IF s # <<>> /\ IsSpace(Head(s)) THEN TrimLeft(Tail(s)) ELSE s

RECURSIVE TrimRight(_)
TrimRight(s) ==
  IF s # <<>> /\ IsSpace(s[Len(s)]) THEN TrimRight(SubSeq(s, 1, Len(s) - 1)) ELSE s

TrimSpace(s) == TrimRight(TrimLeft(s))

\* ReadString('\n'): the text up to and including the first newline, or all
\* of it when the stream ends first.
ReadString(s) ==
  IF \E k \in 1..Len(s) : s[k] = "\n"
    THEN SubSeq(s, 1, CHOOSE k \in 1..Len(s) : s[k] = "\n" /\ \A j \in 1..(k - 1) : s[j] # "\n")
    ELSE s

PhraseAccept == <<"A","C","C","E","P","T">>
PhraseConfirm == <<"C","O","N","F","I","R","M">>

\* A faulty variant of requireConfirmation: the phrase is matched as a
\* prefix of the input (C5 must reject it).
requireConfirmation_Prefix(in) ==
  LET text == ReadString(in)
      input == TrimSpace(ToUpper(text))
      HasPrefix(x, pre) == Len(x) >= Len(pre) /\ SubSeq(x, 1, Len(pre)) = pre
  IN IF ~HasPrefix(input, PhraseAccept) /\ ~HasPrefix(input, PhraseConfirm)
       THEN "confirmation phrase mismatch"
       ELSE ""

\* requireConfirmation: "" for nil, else the error text.
requireConfirmation(in) ==
  LET text == ReadString(in)
      input == TrimSpace(ToUpper(text))
  IN IF input # PhraseAccept /\ input # PhraseConfirm
       THEN "confirmation phrase mismatch"
       ELSE ""

(***************************************************************************)
(* internal/planfile                                                       *)
(*                                                                         *)
(* Strings that the code only compares are strings here. A timestamp       *)
(* string is the sequence of its characters, with the fields between the   *)
(* year and the zone left out (they are written and read digit for digit). *)
(* A hex string is the digest it encodes with the letter case of its       *)
(* digits. SHA-256 and HMAC are taken to be free of collisions.            *)
(***************************************************************************)
\* The byte order of the full names in use (Go compares strings bytewise).
NameOrder == <<"alice/r1", "alice/r2", "bob/r1", "mallory/x">>

StringLess(a, b) ==
  \E i, j \in 1..Len(NameOrder) : NameOrder[i] = a /\ NameOrder[j] = b /\ i < j

LessByFullName(a, b) == StringLess(a.FullName, b.FullName)

\* sort.Slice by full name, for fewer than 12 elements: insertion sort,
\* data[j] moving left while less(data[j], data[j-1]).
InsertSorted(acc, x) ==
  LET stay == {j \in 1..Len(acc) : ~LessByFullName(x, acc[j])}
      at   == IF stay = {} THEN 0 ELSE CHOOSE j \in stay : \A k \in stay : k <= j
  IN SubSeq(acc, 1, at) \o <<x>> \o SubSeq(acc, at + 1, Len(acc))

RECURSIVE SortSlice(_)
SortSlice(s) ==
  IF s = <<>> THEN <<>>
  ELSE InsertSorted(SortSlice(SubSeq(s, 1, Len(s) - 1)), s[Len(s)])

\* time.Time: the year and the zone offset in minutes east of UTC.
UTC(t) == [t EXCEPT !.zone = 0]

DigitChars == <<"0", "1", "2", "3", "4", "5", "6", "7", "8", "9">>

RECURSIVE Decimal(_, _)
\* n in decimal, zero-padded to at least `width` digits.
Decimal(n, width) ==
  IF n < 10 /\ width <= 1 THEN <<DigitChars[n + 1]>>
  ELSE Decimal(n \div 10, width - 1) \o <<DigitChars[(n % 10) + 1]>>

\* Time.Format(time.RFC3339)
FormatRFC3339(t) ==
  Decimal(t.year, 4) \o
    (IF t.zone = 0 THEN <<"Z">>
     ELSE <<IF t.zone < 0 THEN "-" ELSE "+">>
          \o Decimal((IF t.zone < 0 THEN -t.zone ELSE t.zone) \div 60, 2) \o <<":">>
          \o Decimal((IF t.zone < 0 THEN -t.zone ELSE t.zone) % 60, 2))

IsDigit(c) == \E k \in 1..Len(DigitChars) : DigitChars[k] = c

\* time.Parse(time.RFC3339, s) returns no error.
ParsesRFC3339(s) ==
  /\ Len(s) \in {5, 10}
  /\ \A k \in 1..4 : IsDigit(s[k])
  /\ IF Len(s) = 5 THEN s[5] \in {"Z", "z"}
     ELSE /\ s[5] \in {"+", "-"}
          /\ IsDigit(s[6]) /\ IsDigit(s[7]) /\ s[8] = ":" /\ IsDigit(s[9]) /\ IsDigit(s[10])

\* hex.EncodeToString, strings.ToLower on a hex string, and the empty string.
EncodeToString(digest) == [of |-> digest, upper |-> FALSE]
ToLowerHex(h) == [h EXCEPT !.upper = FALSE]
NoHex == [of |-> <<>>, upper |-> FALSE]

Sum256(b) == <<"sha256", b>>

\* hmac.New(sha256.New, key): the key as a block, hashed when longer than a
\* block and padded with zero bytes.
HmacBlockSize == 64

KeyBlock(key) ==
  LET k0 == IF Len(key) > HmacBlockSize THEN <<Sum256(key)>> ELSE key
  IN [k \in 1..HmacBlockSize |-> IF k <= Len(k0) THEN k0[k] ELSE 0]

HmacSum(key, msg) == <<"hmac-sha256", KeyBlock(key), msg>>

\* json.Marshal of a RepoRecord and of a canonicalPlan: the fields in the
\* order of the struct.
MarshalRepo(r) ==
  << <<"owner", r.Owner>>, <<"name", r.Name>>, <<"fullName", r.FullName>>,
     <<"description", r.Description>>, <<"isPrivate", r.IsPrivate>>,
     <<"isFork", r.IsFork>>, <<"isArchived", r.IsArchived>>,
     <<"updatedAt", r.UpdatedAt>> >>

MarshalCanonical(c) ==
  << <<"schemaVersion", c.SchemaVersion>>, <<"createdAt", c.CreatedAt>>,
     <<"actor", c.Actor>>, <<"host", c.Host>>,
     <<"repos", [k \in 1..Len(c.Repos) |-> MarshalRepo(c.Repos[k])]>>,
     <<"count", c.Count>>, <<"toolVersion", c.ToolVersion>> >>

\* planfile.New
PlanfileNew(actor, host, toolVersion, repos, now) ==
  LET sorted == SortSlice(repos)
  IN [SchemaVersion |-> "v1", CreatedAt |-> FormatRFC3339(UTC(now)), Actor |-> actor,
      Host |-> host, Repos |-> sorted, Count |-> Len(sorted), Fingerprint |-> NoHex,
      Signature |-> NoHex, ToolVersion |-> toolVersion]

\* DeletionPlanV1.ComputeFingerprint
ComputeFingerprint(p) ==
  LET canon == [SchemaVersion |-> p.SchemaVersion, CreatedAt |-> p.CreatedAt,
                Actor |-> p.Actor, Host |-> p.Host,
                Repos |-> SortSlice(p.Repos), Count |-> p.Count,
                ToolVersion |-> p.ToolVersion]
  IN EncodeToString(Sum256(MarshalCanonical(canon)))

\* A faulty variant of Sign: the HMAC is taken over the fingerprint field as
\* it was before the call (C8 must reject it).
Sign_StaleFingerprint(p, key) ==
  IF Len(key) = 0 THEN [plan |-> p, err |-> "empty signing secret"]
  ELSE [plan |-> [p EXCEPT !.Fingerprint = ComputeFingerprint(p),
                           !.Signature = EncodeToString(HmacSum(key, p.Fingerprint))],
        err |-> ""]

\* DeletionPlanV1.Sign: the plan after the call and the error ("" for nil).
Sign(p, key) ==
  IF Len(key) = 0 THEN [plan |-> p, err |-> "empty signing secret"]
  ELSE LET fp == ComputeFingerprint(p)
       IN [plan |-> [p EXCEPT !.Fingerprint = fp,
                              !.Signature = EncodeToString(HmacSum(key, fp))],
           err |-> ""]

\* A faulty variant of Validate: the stored fingerprint is not compared (C9
\* must reject it).
Validate_NoFingerprintCheck(p, key) ==
  IF p.SchemaVersion # "v1" THEN "unsupported schemaVersion"
  ELSE IF p.Count # Len(p.Repos) THEN "count mismatch"
  ELSE IF ~ParsesRFC3339(p.CreatedAt) THEN "invalid createdAt"
  ELSE IF EncodeToString(HmacSum(key, ComputeFingerprint(p))) # ToLowerHex(p.Signature)
    THEN "invalid signature"
  ELSE ""

\* DeletionPlanV1.Validate: the error, "" for nil.
Validate(p, key) ==
  IF p.SchemaVersion # "v1" THEN "unsupported schemaVersion"
  ELSE IF p.Count # Len(p.Repos) THEN "count mismatch"
  ELSE IF ~ParsesRFC3339(p.CreatedAt) THEN "invalid createdAt"
  ELSE IF p.Fingerprint # ComputeFingerprint(p) THEN "fingerprint mismatch"
  ELSE IF EncodeToString(HmacSum(key, ComputeFingerprint(p))) # ToLowerHex(p.Signature)
    THEN "invalid signature"
  ELSE ""

(***************************************************************************)
(* internal/manifest                                                       *)
(***************************************************************************)
NewEntry(fullName, archiveStatus) ==
  [FullName |-> fullName, Status |-> StatusPending, BackupPath |-> "",
   BrowsablePath |-> "", BundlePath |-> "", ArchiveCommit |-> "",
   ArchiveStatus |-> archiveStatus, Error |-> "", Attempts |-> 0,
   LastAttemptAt |-> 0]

NoManifest ==
  [Mode |-> "", PlanFingerprint |-> "", UpdatedAt |-> 0, RepoExecutions |-> <<>>,
   DeletedCount |-> 0, FailedCount |-> 0, SkippedFailCount |-> 0]

\* A faulty variant of manifest.New: the last target record gets no entry
\* (C12 must reject it).
ManifestNew_DropLast(p, now, mode) ==
  [Mode |-> mode, PlanFingerprint |-> p.Fingerprint, UpdatedAt |-> now,
   RepoExecutions |->
     [k \in 1..(Len(p.Repos) - 1) |->
        NewEntry(p.Repos[k], IF mode = "backup" THEN "pending" ELSE "skipped")],
   DeletedCount |-> 0, FailedCount |-> 0, SkippedFailCount |-> 0]

\* A faulty variant of manifest.New: the archive status starts as pending
\* in either mode (C38 must reject it).
ManifestNew_AlwaysPending(p, now, mode) ==
  [Mode |-> mode, PlanFingerprint |-> p.Fingerprint, UpdatedAt |-> now,
   RepoExecutions |-> [k \in 1..Len(p.Repos) |-> NewEntry(p.Repos[k], "pending")],
   DeletedCount |-> 0, FailedCount |-> 0, SkippedFailCount |-> 0]

\* manifest.New
ManifestNew(p, now, mode) ==
  [Mode |-> mode, PlanFingerprint |-> p.Fingerprint, UpdatedAt |-> now,
   RepoExecutions |->
     [k \in 1..Len(p.Repos) |->
        NewEntry(p.Repos[k], IF mode = "backup" THEN "pending" ELSE "skipped")],
   DeletedCount |-> 0, FailedCount |-> 0, SkippedFailCount |-> 0]

CountEntries(mf, P(_)) == Cardinality({k \in 1..Len(mf.RepoExecutions) : P(mf.RepoExecutions[k])})

IsDeleted(r) == r.Status = StatusDeleted
IsFailed(r) == r.Status = StatusBackupFailed \/ r.Status = StatusDeleteFailed

IsDeleteFailed(r) == r.Status = StatusDeleteFailed

\* A faulty variant of RecomputeCounters: only the failed deletes are
\* counted as failed (C39 must reject it).
RecomputeCounters_DeleteFailuresOnly(mf) ==
  [mf EXCEPT !.DeletedCount = CountEntries(mf, IsDeleted),
             !.FailedCount = CountEntries(mf, IsDeleteFailed),
             !.SkippedFailCount = CountEntries(mf, IsDeleteFailed)]

\* ExecutionManifestV1.RecomputeCounters
RecomputeCounters(mf) ==
  [mf EXCEPT !.DeletedCount = CountEntries(mf, IsDeleted),
             !.FailedCount = CountEntries(mf, IsFailed),
             !.SkippedFailCount = CountEntries(mf, IsFailed)]

\* A faulty variant of manifest.Write: the counters are written as the
\* caller's manifest holds them (C13 must reject it).
WriteContent_StoredCounters(mf) == mf

\* manifest.Write: the file content written for mf (the counters are
\* recomputed on the copy that is written, not on the caller's manifest).
WriteContent(mf) == RecomputeCounters(mf)

\* ExecutionManifestV1.Touch
Touch(mf, now) == [mf EXCEPT !.UpdatedAt = now]

(***************************************************************************)
(* internal/executor: helpers                                              *)
(***************************************************************************)
\* A faulty variant of shouldSkipEntry: delete mode skips nothing (C2 must
\* reject it).
shouldSkipEntry_NoDeleteSkip(mode, entry) ==
  IF mode = ModeDelete
    THEN FALSE
    ELSE entry.Status = StatusBackupOK /\ entry.BundlePath # ""

\* A faulty variant of shouldSkipEntry: backup mode skips nothing (C31
\* must reject it).
shouldSkipEntry_NoBackupSkip(mode, entry) ==
  IF mode = ModeDelete
    THEN entry.Status = StatusDeleted
    ELSE FALSE

shouldSkipEntry(mode, entry) ==
  IF mode = ModeDelete
    THEN entry.Status = StatusDeleted
    ELSE entry.Status = StatusBackupOK /\ entry.BundlePath # ""

SeqToSet(s) == {s[k] : k \in 1..Len(s)}

\* A faulty variant of markArchiveSuccess: the targets are not consulted
\* (C21 must reject it).
markArchiveSuccess_AllBundled(mf, commit, targets) ==
  [mf EXCEPT !.RepoExecutions =
     [k \in 1..Len(mf.RepoExecutions) |->
        LET entry == mf.RepoExecutions[k] IN
        IF entry.Status = StatusBackupOK /\ entry.BundlePath # ""
          THEN [entry EXCEPT !.ArchiveStatus = "archived", !.ArchiveCommit = commit]
          ELSE entry]]

markArchiveSuccess(mf, commit, targets) ==
  [mf EXCEPT !.RepoExecutions =
     [k \in 1..Len(mf.RepoExecutions) |->
        LET entry == mf.RepoExecutions[k] IN
        IF entry.FullName \in SeqToSet(targets)
           /\ entry.Status = StatusBackupOK /\ entry.BundlePath # ""
          THEN [entry EXCEPT !.ArchiveStatus = "archived", !.ArchiveCommit = commit]
          ELSE entry]]

\* markArchiveFailure also failing the backup of the targets.
markArchiveFailure_FailsBackup(mf, errText, targets) ==
  [mf EXCEPT !.RepoExecutions =
     [k \in 1..Len(mf.RepoExecutions) |->
        LET entry == mf.RepoExecutions[k] IN
        IF entry.FullName \in SeqToSet(targets)
           /\ entry.Status = StatusBackupOK /\ entry.BundlePath # ""
          THEN [entry EXCEPT !.ArchiveStatus = "archive_failed", !.Error = errText,
                             !.Status = StatusBackupFailed]
          ELSE entry]]

markArchiveFailure(mf, errText, targets) ==
  [mf EXCEPT !.RepoExecutions =
     [k \in 1..Len(mf.RepoExecutions) |->
        LET entry == mf.RepoExecutions[k] IN
        IF entry.FullName \in SeqToSet(targets)
           /\ entry.Status = StatusBackupOK /\ entry.BundlePath # ""
          THEN [entry EXCEPT !.ArchiveStatus = "archive_failed", !.Error = errText]
          ELSE entry]]

\* markArchiveSkipped marking every pending archive status.
markArchiveSkipped_EveryPending(mf) ==
  [mf EXCEPT !.RepoExecutions =
     [k \in 1..Len(mf.RepoExecutions) |->
        LET entry == mf.RepoExecutions[k] IN
        IF entry.ArchiveStatus = "pending"
          THEN [entry EXCEPT !.ArchiveStatus = "skipped"]
          ELSE entry]]

markArchiveSkipped(mf) ==
  [mf EXCEPT !.RepoExecutions =
     [k \in 1..Len(mf.RepoExecutions) |->
        LET entry == mf.RepoExecutions[k] IN
        IF entry.Status = StatusBackupOK /\ entry.BundlePath # ""
           /\ entry.ArchiveStatus = "pending"
          THEN [entry EXCEPT !.ArchiveStatus = "skipped"]
          ELSE entry]]

IsArchiveFailed(r) == r.ArchiveStatus = "archive_failed"
IsArchiveSkippedSize(r) == r.ArchiveStatus = "archive_skipped_size_limit"

countArchiveFailures(mf) == CountEntries(mf, IsArchiveFailed)
countArchiveSkippedSize(mf) == CountEntries(mf, IsArchiveSkippedSize)

\* The outcomes of the size filter for one bundle: the stat fails, the bundle
\* fits, it is oversized and moved, it is oversized and the move fails.
SizeOutcomes == {"fits", "oversized", "stat_failed", "move_failed"}

\* A faulty variant of sizeOutcome: a bundle of exactly the limit counts as
\* oversized (C20 must reject it).
sizeOutcome_AtLimit(size, maxBytes, statOK, moveOK) ==
  IF ~statOK THEN "stat_failed"
  ELSE IF size >= maxBytes THEN (IF moveOK THEN "oversized" ELSE "move_failed")
  ELSE "fits"

\* Lines 453-479: the outcome for one bundle, from the result of os.Stat,
\* the size it reports and the result of moveFile.
sizeOutcome(size, maxBytes, statOK, moveOK) ==
  IF ~statOK THEN "stat_failed"
  ELSE IF size > maxBytes THEN (IF moveOK THEN "oversized" ELSE "move_failed")
  ELSE "fits"

\* filterArchiveBundlesBySize: the manifest after the filter, for the outcome
\* oc[name] of each bundle (findEntry picks the first entry of that name).
filterEntry(entry, outcome) ==
  CASE outcome = "stat_failed" ->
         [entry EXCEPT !.ArchiveStatus = "archive_failed", !.Error = "bundle stat failed"]
    [] outcome = "move_failed" ->
         [entry EXCEPT !.ArchiveStatus = "archive_failed",
                       !.Error = "failed moving oversized bundle"]
    [] outcome = "oversized" ->
         [entry EXCEPT !.BundlePath = "archive-skipped-size/bundle",
                       !.ArchiveStatus = "archive_skipped_size_limit",
                       !.Error = "bundle size exceeds archive limit"]
    [] OTHER -> entry

filterManifest(mf, bundles, oc) ==
  [mf EXCEPT !.RepoExecutions =
     [k \in 1..Len(mf.RepoExecutions) |->
        LET entry == mf.RepoExecutions[k] IN
        IF entry.FullName \in SeqToSet(bundles)
          THEN filterEntry(entry, oc[entry.FullName])
          ELSE entry]]

\* A faulty variant of filterEligible: only the oversized bundles are left
\* out (C33 must reject it).
filterEligible_KeepsFailed(bundles, oc) ==
  SelectSeq(bundles, LAMBDA b : oc[b] # "oversized")

\* The eligible bundles, in the order of the candidates.
filterEligible(bundles, oc) == SelectSeq(bundles, LAMBDA b : oc[b] = "fits")
filterSkipped(bundles, oc) == SelectSeq(bundles, LAMBDA b : oc[b] = "oversized")

\* The number of bundles whose stat or move fails.
filterFailures(bundles, oc) ==
  Cardinality({b \in SeqToSet(bundles) : oc[b] \in {"stat_failed", "move_failed"}})

ZeroResult ==
  [ManifestPath |-> "", BackupRoot |-> NoDir, Deleted |-> 0, Failed |-> 0,
   ArchiveFailed |-> 0, ArchiveSkippedSize |-> 0, Total |-> 0, ArchiveCommit |-> ""]

\* A faulty variant of simulate: the rehearsed deletions are counted as done
\* (C4 must reject it).
simulate_Counting(plan, root) ==
  [ManifestPath |-> DryRunMarker, BackupRoot |-> root, Deleted |-> Len(plan.Repos),
   Failed |-> 0, ArchiveFailed |-> 0, ArchiveSkippedSize |-> 0,
   Total |-> Len(plan.Repos), ArchiveCommit |-> ""]

\* Executor.simulate: the result of a dry run.
simulate(plan, root) ==
  [ManifestPath |-> DryRunMarker, BackupRoot |-> root, Deleted |-> 0, Failed |-> 0,
   ArchiveFailed |-> 0, ArchiveSkippedSize |-> 0, Total |-> Len(plan.Repos),
   ArchiveCommit |-> ""]

\* The number of "[dry-run]" lines simulate prints.
simulateLines(plan, mode, noArchive) ==
  Len(plan.Repos) * 3 + (IF mode = ModeBackup /\ ~noArchive THEN 1 ELSE 0)

(***************************************************************************)
(* internal/tui: the application model (appModel) and its Update           *)
(*                                                                         *)
(* A string the code reads character by character (a key's text, a typed   *)
(* input, a repository name, the table filter) is the sequence of its      *)
(* characters. Modelled are the key messages and the messages that open or *)
(* replace a popup or change the table: commandResultMsg,                  *)
(* reposRefreshedMsg and updateRunMsg. The window size, the cursor blink,  *)
(* the theme and the settings texts are left out, and with them the        *)
(* messages that change nothing else. The cursors of the archive browser   *)
(* and of the settings submenus are not kept: what the directory listing   *)
(* holds and which submenu line is highlighted is drawn when enter is      *)
(* pressed. A status text that embeds a name or an error is cut down to    *)
(* its fixed part.                                                         *)
(***************************************************************************)
modeBrowse == "modeBrowse"
modeCommands == "modeCommands"
modeDetails == "modeDetails"

paneTable == "paneTable"
paneCommands == "paneCommands"

sortFieldName == "sortFieldName"
sortFieldUpdated == "sortFieldUpdated"
sortFieldVisibility == "sortFieldVisibility"
sortAsc == "sortAsc"
sortDesc == "sortDesc"

modalNone == "modalNone"
modalCommandForm == "modalCommandForm"
modalRestoreBrowse == "modalRestoreBrowse"
modalRestoreSelectRepo == "modalRestoreSelectRepo"
modalRestoreYesNo == "modalRestoreYesNo"
modalRestoreRename == "modalRestoreRename"
modalDeleteConfirm == "modalDeleteConfirm"
modalSettings == "modalSettings"
modalResult == "modalResult"

restoreStageNone == "restoreStageNone"
restoreStageBrowseArchive == "restoreStageBrowseArchive"
restoreStageSelectRepo == "restoreStageSelectRepo"
restoreStageAskUseOriginal == "restoreStageAskUseOriginal"
restoreStageInputNewName == "restoreStageInputNewName"

settingsStageConfigHome == "settingsStageConfigHome"
settingsStageThemeHome == "settingsStageThemeHome"
settingsStageThemeLocalList == "settingsStageThemeLocalList"
settingsStageThemeRemoteList == "settingsStageThemeRemoteList"
settingsStageUpdateHome == "settingsStageUpdateHome"

fieldText == "fieldText"
fieldBool == "fieldBool"

\* The keys: tea.KeyMsg.String() is the character for a rune key and a name
\* for the others.
Runes == {"1", "2", "3", "q", "n", "u", "v", "j", "k", "d", " "}
NamedKeys == {"tab", "enter", "esc", "backspace", "down"}
Keys == Runes \cup NamedKeys

\* The byte of a character.
Ascii(c) ==
  CASE c = " " -> 32 [] c = "-" -> 45 [] c = "/" -> 47
    [] c = "0" -> 48 [] c = "1" -> 49 [] c = "2" -> 50 [] c = "3" -> 51
    [] c = "5" -> 53 [] c = "6" -> 54
    [] c = "a" -> 97 [] c = "b" -> 98 [] c = "c" -> 99 [] c = "d" -> 100
    [] c = "e" -> 101 [] c = "i" -> 105 [] c = "j" -> 106 [] c = "k" -> 107
    [] c = "l" -> 108 [] c = "n" -> 110 [] c = "o" -> 111 [] c = "p" -> 112
    [] c = "q" -> 113 [] c = "r" -> 114 [] c = "s" -> 115 [] c = "t" -> 116
    [] c = "u" -> 117 [] c = "v" -> 118 [] c = "y" -> 121
    [] OTHER -> 0

\* restore_flow.go, isPrintableKey: one byte between 32 and 126.
isPrintableKey(k) == k \in Runes /\ Ascii(k) >= 32 /\ Ascii(k) <= 126

\* strings.Compare on character sequences: -1, 0 or 1.
RECURSIVE StrCompare(_, _)
StrCompare(x, y) ==
  IF x = <<>> /\ y = <<>> THEN 0
  ELSE IF x = <<>> THEN -1
  ELSE IF y = <<>> THEN 1
  ELSE IF Ascii(Head(x)) < Ascii(Head(y)) THEN -1
  ELSE IF Ascii(Head(x)) > Ascii(Head(y)) THEN 1
  ELSE StrCompare(Tail(x), Tail(y))

\* strings.Contains
Contains(hay, needle) ==
  \/ needle = <<>>
  \/ \E i \in 1..(Len(hay) - Len(needle) + 1) :
       SubSeq(hay, i, i + Len(needle) - 1) = needle

\* strings.ToLower; the texts in use hold no upper-case letter but these.
ToLowerChar(c) ==
  CASE c = "N" -> "n" [] c = "Y" -> "y" [] OTHER -> c

ToLower(s) == [k \in 1..Len(s) |-> ToLowerChar(s[k])]

\* v[:len(v)-1]
DropLast(v) == SubSeq(v, 1, Len(v) - 1)

(***************************************************************************)
(* repo_table.go                                                           *)
(***************************************************************************)
\* The repositories of the table. UpdatedAt is the year of the RFC3339 text.
TableRepoN ==
  [Name |-> <<"n">>, FullName |-> <<"a", "/", "n">>, IsPrivate |-> FALSE,
   UpdatedAt |-> <<"2", "0", "2", "6">>]
TableRepoV ==
  [Name |-> <<"v">>, FullName |-> <<"a", "/", "v">>, IsPrivate |-> TRUE,
   UpdatedAt |-> <<"2", "0", "2", "5">>]

\* planfile.RepoRecord{}
NoRepo == [Name |-> <<>>, FullName |-> <<>>, IsPrivate |-> FALSE, UpdatedAt |-> <<>>]

\* The repository lists handed to the program: at start, and by a refresh
\* after a/n was deleted.
StartRepos == <<TableRepoN, TableRepoV>>
RefreshedRepos == {<<TableRepoN, TableRepoV>>, <<TableRepoV>>}

visibilitySortValue(r) ==
  IF r.IsPrivate THEN <<"p", "r", "i", "v", "a", "t", "e">>
                 ELSE <<"p", "u", "b", "l", "i", "c">>

visibilityLabel(r) == <<" ">> \o visibilitySortValue(r)

\* parseUpdatedAt: the instant, and whether the text parses.
RECURSIVE DigitsValue(_)
DigitsValue(v) ==
  IF v = <<>> THEN 0 ELSE 10 * DigitsValue(DropLast(v)) + (Ascii(v[Len(v)]) - 48)

parseUpdatedAt(v) ==
  IF v = <<>> THEN [t |-> 0, ok |-> FALSE] ELSE [t |-> DigitsValue(v), ok |-> TRUE]

compareRepos(a, b, field) ==
  CASE field = sortFieldUpdated ->
         LET at == parseUpdatedAt(a.UpdatedAt)
             bt == parseUpdatedAt(b.UpdatedAt)
         IN IF ~at.ok /\ ~bt.ok THEN StrCompare(a.FullName, b.FullName)
            ELSE IF ~at.ok THEN 1
            ELSE IF ~bt.ok THEN -1
            ELSE IF at.t = bt.t THEN StrCompare(a.FullName, b.FullName)
            ELSE IF at.t < bt.t THEN -1
            ELSE 1
    [] field = sortFieldVisibility ->
         LET av == visibilitySortValue(a)
             bv == visibilitySortValue(b)
         IN IF av = bv THEN StrCompare(a.FullName, b.FullName)
                       ELSE StrCompare(av, bv)
    [] OTHER -> StrCompare(a.FullName, b.FullName)

\* The text recompute searches for the filter: the fields joined by spaces
\* (the description is empty).
haystack(r) ==
  r.FullName \o <<" ">> \o r.Name \o <<" ">> \o <<>> \o <<" ">>
    \o visibilitySortValue(r) \o <<" ">> \o visibilityLabel(r) \o <<" ">> \o r.UpdatedAt

\* The comparison recompute sorts the rows with.
rowBefore(t, i, j) ==
  LET a == t.repos[i]
      b == t.repos[j]
      cmp == compareRepos(a, b, t.sortBy)
  IN IF cmp = 0 THEN StrCompare(a.FullName, b.FullName) < 0
     ELSE IF t.sortDir = sortAsc THEN cmp < 0
     ELSE cmp > 0

\* repoTable.recompute: the rows that match the filter, in sort order, and
\* the cursor kept inside them.
recompute(t) ==
  LET needle == ToLower(TrimSpace(t.filter))
      matching == {i \in 1..Len(t.repos) :
                     needle = <<>> \/ Contains(ToLower(haystack(t.repos[i])), needle)}
      n == Cardinality(matching)
      indexes == CHOOSE s \in [1..n -> matching] :
                   /\ \A p, q \in 1..n : p # q => s[p] # s[q]
                   /\ \A p, q \in 1..n : p < q => ~rowBefore(t, s[q], s[p])
      c1 == IF t.cursor >= n THEN n - 1 ELSE t.cursor
      c2 == IF c1 < 0 THEN 0 ELSE c1
  IN [t EXCEPT !.filtered = indexes, !.cursor = c2]

newRepoTable(repos) ==
  recompute([repos |-> repos, selected |-> {}, filtered |-> <<>>, cursor |-> 0,
             filter |-> <<>>, sortBy |-> sortFieldName, sortDir |-> sortAsc])

replaceRepos(t, repos) ==
  recompute([t EXCEPT !.repos = repos,
                      !.selected = {repos[k].FullName : k \in 1..Len(repos)}
                                     \cap t.selected])

moveCursor(t, delta) ==
  IF Len(t.filtered) = 0 THEN t
  ELSE LET c == t.cursor + delta
       IN [t EXCEPT !.cursor = IF c < 0 THEN 0
                               ELSE IF c > Len(t.filtered) - 1 THEN Len(t.filtered) - 1
                               ELSE c]

\* repoTable.currentRepo (the cursor counts from 0).
currentRepo(t) ==
  IF Len(t.filtered) = 0 \/ t.cursor < 0 \/ t.cursor >= Len(t.filtered)
    THEN [repo |-> NoRepo, ok |-> FALSE]
    ELSE [repo |-> t.repos[t.filtered[t.cursor + 1]], ok |-> TRUE]

toggleCurrent(t) ==
  IF ~currentRepo(t).ok THEN t
  ELSE LET name == currentRepo(t).repo.FullName
       IN [t EXCEPT !.selected = IF name \in @ THEN @ \ {name} ELSE @ \cup {name}]

backspaceFilter(t) ==
  IF Len(t.filter) = 0 THEN t ELSE recompute([t EXCEPT !.filter = DropLast(@)])

appendFilterChar(t, ch) ==
  IF ch \notin Runes \/ Ascii(ch) < 32 \/ Ascii(ch) > 126 THEN t
  ELSE recompute([t EXCEPT !.filter = Append(@, ch)])

setSortField(t, field) ==
  IF t.sortBy = field
    THEN recompute([t EXCEPT !.sortDir = IF @ = sortAsc THEN sortDesc ELSE sortAsc])
    ELSE recompute([t EXCEPT !.sortBy = field,
                             !.sortDir = IF field = sortFieldUpdated THEN sortDesc
                                                                     ELSE sortAsc])

(***************************************************************************)
(* app_tui.go                                                              *)
(***************************************************************************)
\* AppCallbacks: which callbacks are set (TRUE: not nil), and whether
\* RestoreDefaultOwner is non-empty.
AllCallbacks ==
  [Plan |-> TRUE, Inspect |-> TRUE, Backup |-> TRUE, Execute |-> TRUE,
   Restore |-> TRUE, Delete |-> TRUE, RefreshRepos |-> TRUE, UpdateCheck |-> TRUE,
   UpdateRun |-> TRUE, RestoreDefaultOwner |-> TRUE]
NoCallbacks ==
  [Plan |-> FALSE, Inspect |-> FALSE, Backup |-> FALSE, Execute |-> FALSE,
   Restore |-> FALSE, Delete |-> FALSE, RefreshRepos |-> FALSE, UpdateCheck |-> FALSE,
   UpdateRun |-> FALSE, RestoreDefaultOwner |-> FALSE]
CallbackChoices == {AllCallbacks, NoCallbacks}

\* The commands of the commands pane, by name, and the fields of their forms.
CommandNames == <<"Plan", "Inspect", "Backup", "Execute", "Restore", "Delete", "Settings">>

TextField(key, required) ==
  [key |-> key, kind |-> fieldText, value |-> <<>>, boolValue |-> FALSE,
   required |-> required]

commandFields(name) ==
  CASE name = "Plan" -> <<TextField("out", FALSE)>>
    [] name = "Inspect" -> <<TextField("plan", TRUE)>>
    [] name \in {"Backup", "Execute"} ->
         <<TextField("plan", FALSE), TextField("backup_location", FALSE),
           [key |-> "dry_run", kind |-> fieldBool, value |-> <<>>, boolValue |-> TRUE,
            required |-> FALSE],
           TextField("confirm", TRUE)>>
    [] OTHER -> <<>>

\* restoreState{} and settingsState{}
NoRestore == [active |-> FALSE, stage |-> restoreStageNone, promptInput |-> <<>>]
NoSettings == [stage |-> settingsStageConfigHome, homeCursor |-> 0, updateBusy |-> FALSE]

\* A tea.Cmd: what it runs, "nil" for none; for a command of the commands
\* pane the repository it is given and the refreshRepos flag of its result.
NilCmd == [run |-> "nil", repo |-> NoRepo, refresh |-> FALSE]
QuitCmd == [run |-> "tea.Quit", repo |-> NoRepo, refresh |-> FALSE]
BlinkCmd == [run |-> "blinkCursorCmd", repo |-> NoRepo, refresh |-> FALSE]
RefreshCmd == [run |-> "RefreshRepos", repo |-> NoRepo, refresh |-> FALSE]
SettingsCmd == [run |-> "settings", repo |-> NoRepo, refresh |-> FALSE]
UpdateRunCmd == [run |-> "UpdateRun", repo |-> NoRepo, refresh |-> FALSE]
CallbackCmd(name, repo, refresh) == [run |-> name, repo |-> repo, refresh |-> refresh]

\* The commands that end with a commandResultMsg.
IsCommand(c) == c.run \in {"Plan", "Inspect", "Backup", "Execute", "Restore", "Delete"}

\* What Update returns: the model and the command.
Ret(a, c) == [model |-> a, cmd |-> c]

\* The zero appModel, before RunApp.
ZeroApp ==
  [table |-> [repos |-> <<>>, selected |-> {}, filtered |-> <<>>, cursor |-> 0,
              filter |-> <<>>, sortBy |-> sortFieldName, sortDir |-> sortAsc],
   callbacks |-> NoCallbacks, activeMode |-> modeBrowse, activePane |-> paneTable,
   commands |-> <<>>, cmdCursor |-> 0, formOpen |-> FALSE, formFields |-> <<>>,
   formFieldIdx |-> 0, formCommand |-> "", status |-> "", busy |-> FALSE,
   quitting |-> FALSE, restoreState |-> NoRestore, modalActive |-> FALSE,
   modalKind |-> modalNone, resultText |-> "", resultScroll |-> 0,
   deleteRepo |-> NoRepo, deleteInput |-> <<>>, settings |-> NoSettings]

newAppModel(repos, callbacks) ==
  [ZeroApp EXCEPT !.table = newRepoTable(repos), !.callbacks = callbacks,
                  !.activeMode = modeBrowse, !.activePane = paneTable,
                  !.commands = CommandNames, !.status = "Ready"]

openCommandFormModal(a) == [a EXCEPT !.modalActive = TRUE, !.modalKind = modalCommandForm]

openRestoreYesNoModal(a) == [a EXCEPT !.modalActive = TRUE, !.modalKind = modalRestoreYesNo]

openRestoreBrowseModal(a) ==
  [a EXCEPT !.modalActive = TRUE, !.modalKind = modalRestoreBrowse]

openRestoreSelectRepoModal(a) ==
  [a EXCEPT !.modalActive = TRUE, !.modalKind = modalRestoreSelectRepo]

openRestoreRenameModal(a, seed) ==
  [a EXCEPT !.modalActive = TRUE, !.modalKind = modalRestoreRename,
            !.restoreState.promptInput = seed]

openDeleteConfirmModal(a, repo) ==
  [a EXCEPT !.modalActive = TRUE, !.modalKind = modalDeleteConfirm,
            !.deleteRepo = repo, !.deleteInput = <<>>,
            !.status = "Danger: type repo name to confirm delete"]

openSettingsModal(a) ==
  [a EXCEPT !.modalActive = TRUE, !.modalKind = modalSettings, !.settings = NoSettings]

closeModal(a) ==
  [a EXCEPT !.modalActive = FALSE, !.modalKind = modalNone, !.resultText = "",
            !.resultScroll = 0, !.deleteRepo = NoRepo, !.deleteInput = <<>>,
            !.settings = NoSettings]

\* openResultModal; the text is "output" or "error".
openResultModal(a, text) ==
  [a EXCEPT !.modalActive = TRUE, !.modalKind = modalResult, !.resultText = text,
            !.resultScroll = 0]

\* The suggested name a rename popup starts with (the original name and
\* "-ghm", or the name the conflict error suggests), as one token.
SeedName == <<"s">>

\* What pressing enter finds outside the model: the directory listing of the
\* archive browser, the highlighted line of a settings submenu, and whether
\* an update is available.
NoEnv == [fs |-> "", pick |-> "", updateAvailable |-> FALSE]
FsOutcomes == {"empty", "load_error", "no_repos", "archive", "dir"}
ThemePicks ==
  {"Current", "List local themes", "Apply local theme", "Uninstall local theme",
   "List remote themes", "Install remote theme", "Back"}
UpdatePicks == {"Check now", "Update now", "View release URL", "Back"}
\* In a theme list: no theme is listed or the list is only viewed ("view"),
\* or a theme is highlighted for a change whose callback is set ("change").
ListPicks == {"view", "change"}

\* updateCheckCmd
updateCheckCmd(a) == IF a.callbacks.UpdateCheck THEN SettingsCmd ELSE NilCmd

startRestoreFlow(a) ==
  openRestoreBrowseModal(
    [a EXCEPT !.restoreState = [active |-> TRUE, stage |-> restoreStageBrowseArchive,
                                promptInput |-> <<>>],
              !.status = "Restore: select archive root"])

\* restore_flow.go, updateRestoreFlow
updateRestoreFlow(a, key, env) ==
  LET s == a.restoreState IN
  CASE s.stage = restoreStageBrowseArchive ->
         (CASE key = "esc" ->
                 Ret([closeModal([a EXCEPT !.restoreState = NoRestore])
                        EXCEPT !.status = "Restore canceled"], NilCmd)
            [] key = "backspace" ->
                 Ret([a EXCEPT !.status = "Restore: browse archive folders"], NilCmd)
            [] key = "enter" ->
                 (CASE env.fs = "empty" ->
                         Ret([a EXCEPT !.status = "No directories found"], NilCmd)
                    [] env.fs = "load_error" ->
                         Ret([a EXCEPT !.status = "Error: load index"], NilCmd)
                    [] env.fs = "no_repos" ->
                         Ret([a EXCEPT !.status = "No restorable repos found in archive"],
                             NilCmd)
                    [] env.fs = "archive" ->
                         Ret(openRestoreSelectRepoModal(
                               [a EXCEPT !.restoreState.stage = restoreStageSelectRepo,
                                         !.status = "Restore: select repository"]),
                             NilCmd)
                    [] OTHER ->
                         Ret([a EXCEPT !.status = "Restore: browse archive folders"],
                             NilCmd))
            [] OTHER -> Ret(a, NilCmd))
    [] s.stage = restoreStageSelectRepo ->
         (CASE key = "esc" ->
                 Ret(openRestoreBrowseModal(
                       [a EXCEPT !.restoreState.stage = restoreStageBrowseArchive,
                                 !.status = "Restore: select archive root"]), NilCmd)
            [] key = "enter" ->
                 Ret(openRestoreYesNoModal(
                       [a EXCEPT !.restoreState.promptInput = <<>>,
                                 !.restoreState.stage = restoreStageAskUseOriginal,
                                 !.status = "Use original name? (yes/no)"]), BlinkCmd)
            [] OTHER -> Ret(a, NilCmd))
    [] OTHER -> Ret(a, NilCmd)

\* restore_flow.go, parseYesNo
parseYesNo(v) ==
  LET n == ToLower(TrimSpace(v)) IN
  IF n \in {<<"y">>, <<"y", "e", "s">>} THEN [yes |-> TRUE, valid |-> TRUE]
  ELSE IF n \in {<<"n">>, <<"n", "o">>} THEN [yes |-> FALSE, valid |-> TRUE]
  ELSE [yes |-> FALSE, valid |-> FALSE]

\* restore_flow.go, submitRestore: the command, and the error ("" for nil).
submitRestore(a) ==
  IF ~a.callbacks.Restore THEN [cmd |-> NilCmd, err |-> "restore callback unavailable"]
  ELSE IF ~a.callbacks.RestoreDefaultOwner
    THEN [cmd |-> NilCmd, err |-> "restore owner is empty"]
  ELSE [cmd |-> CallbackCmd("Restore", NoRepo, TRUE), err |-> ""]

\* selectedReposSorted is empty.
NoneSelected(a) ==
  ~\E k \in 1..Len(a.table.repos) : a.table.repos[k].FullName \in a.table.selected

\* submitCommandForm: the command, and the error ("" for nil).
submitCommandForm(a) ==
  IF \E k \in 1..Len(a.formFields) :
       a.formFields[k].required /\ TrimSpace(a.formFields[k].value) = <<>>
    THEN [cmd |-> NilCmd, err |-> "field is required"]
  ELSE CASE a.formCommand = "Plan" ->
              IF NoneSelected(a) THEN [cmd |-> NilCmd, err |-> "no repositories selected"]
              ELSE IF ~a.callbacks.Plan
                THEN [cmd |-> NilCmd, err |-> "plan callback unavailable"]
              ELSE [cmd |-> CallbackCmd("Plan", NoRepo, FALSE), err |-> ""]
         [] a.formCommand = "Inspect" ->
              IF ~a.callbacks.Inspect
                THEN [cmd |-> NilCmd, err |-> "inspect callback unavailable"]
                ELSE [cmd |-> CallbackCmd("Inspect", NoRepo, FALSE), err |-> ""]
         [] a.formCommand = "Backup" ->
              IF ~a.callbacks.Backup
                THEN [cmd |-> NilCmd, err |-> "backup callback unavailable"]
                ELSE [cmd |-> CallbackCmd("Backup", NoRepo, FALSE), err |-> ""]
         [] a.formCommand = "Execute" ->
              IF ~a.callbacks.Execute
                THEN [cmd |-> NilCmd, err |-> "execute callback unavailable"]
                ELSE [cmd |-> CallbackCmd("Execute", NoRepo, TRUE), err |-> ""]
         [] a.formCommand = "Restore" ->
              [cmd |-> NilCmd, err |-> "restore is handled by restore window"]
         [] OTHER -> [cmd |-> NilCmd, err |-> "unsupported command"]

\* openFormForCurrentCommand (the cursor counts from 0).
openFormForCurrentCommand(a) ==
  IF Len(a.commands) = 0 \/ a.cmdCursor < 0 \/ a.cmdCursor >= Len(a.commands)
    THEN Ret(a, NilCmd)
  ELSE LET name == a.commands[a.cmdCursor + 1] IN
       CASE name = "Restore" -> Ret(startRestoreFlow(a), NilCmd)
         [] name = "Delete" ->
              IF ~currentRepo(a.table).ok
                THEN Ret([a EXCEPT !.status = "No repository selected"], NilCmd)
                ELSE Ret(openDeleteConfirmModal(a, currentRepo(a.table).repo), BlinkCmd)
         [] name = "Settings" -> Ret(openSettingsModal(a), SettingsCmd)
         [] OTHER ->
              Ret(openCommandFormModal(
                    [a EXCEPT !.formCommand = name, !.formFields = commandFields(name),
                              !.formFieldIdx = 0, !.formOpen = TRUE,
                              !.status = "Fill form and press enter to run"]), BlinkCmd)

\* The field of the form the cursor is on (formFieldIdx counts from 0).
CurrentField(a) == a.formFields[a.formFieldIdx + 1]

\* updateSettingsModal
updateSettingsModal(a, key, env) ==
  LET s == a.settings IN
  CASE s.stage = settingsStageConfigHome ->
         (CASE key = "esc" -> Ret(closeModal(a), NilCmd)
            [] key \in {"up", "k"} ->
                 Ret([a EXCEPT !.settings.homeCursor = IF @ > 0 THEN @ - 1 ELSE @], NilCmd)
            [] key \in {"down", "j"} ->
                 Ret([a EXCEPT !.settings.homeCursor = IF @ < 2 THEN @ + 1 ELSE @], NilCmd)
            [] key = "enter" ->
                 (CASE s.homeCursor = 0 ->
                         Ret([a EXCEPT !.settings.stage = settingsStageThemeHome],
                             SettingsCmd)
                    [] s.homeCursor = 1 ->
                         Ret([a EXCEPT !.settings.stage = settingsStageUpdateHome],
                             updateCheckCmd(a))
                    [] OTHER -> Ret(closeModal(a), NilCmd))
            [] OTHER -> Ret(a, NilCmd))
    [] s.stage = settingsStageThemeHome ->
         (CASE key = "esc" ->
                 Ret([a EXCEPT !.settings.stage = settingsStageConfigHome], NilCmd)
            [] key = "enter" ->
                 (CASE env.pick = "Current" -> Ret(a, SettingsCmd)
                    [] env.pick \in {"List local themes", "Apply local theme",
                                     "Uninstall local theme"} ->
                         Ret([a EXCEPT !.settings.stage = settingsStageThemeLocalList],
                             SettingsCmd)
                    [] env.pick \in {"List remote themes", "Install remote theme"} ->
                         Ret([a EXCEPT !.settings.stage = settingsStageThemeRemoteList],
                             SettingsCmd)
                    [] OTHER ->
                         Ret([a EXCEPT !.settings.stage = settingsStageConfigHome], NilCmd))
            [] OTHER -> Ret(a, NilCmd))
    [] s.stage \in {settingsStageThemeLocalList, settingsStageThemeRemoteList} ->
         (CASE key = "esc" ->
                 Ret([a EXCEPT !.settings.stage = settingsStageThemeHome], NilCmd)
            [] key = "enter" ->
                 IF env.pick = "change" THEN Ret(a, SettingsCmd) ELSE Ret(a, NilCmd)
            [] OTHER -> Ret(a, NilCmd))
    [] OTHER ->
         (CASE key = "esc" ->
                 Ret([a EXCEPT !.settings.stage = settingsStageConfigHome], NilCmd)
            [] key = "enter" ->
                 (CASE env.pick = "Check now" -> Ret(a, updateCheckCmd(a))
                    [] env.pick = "Update now" ->
                         IF s.updateBusy \/ ~env.updateAvailable \/ ~a.callbacks.UpdateRun
                           THEN Ret(a, NilCmd)
                           ELSE Ret([a EXCEPT !.settings.updateBusy = TRUE], UpdateRunCmd)
                    [] env.pick = "Back" ->
                         Ret([a EXCEPT !.settings.stage = settingsStageConfigHome], NilCmd)
                    [] OTHER -> Ret(a, NilCmd))
            [] OTHER -> Ret(a, NilCmd))

\* A faulty variant of the delete popup: the typed input is matched as a
\* prefix of the repository name.
deleteConfirmed_Prefix(a) ==
  LET expected == TrimSpace(a.deleteRepo.Name)
      typed == TrimSpace(a.deleteInput)
  IN Len(typed) <= Len(expected) /\ SubSeq(expected, 1, Len(typed)) = typed

\* The comparison of the delete popup: the trimmed input is the trimmed name.
deleteConfirmed(a) == TrimSpace(a.deleteInput) = TrimSpace(a.deleteRepo.Name)

\* updateModalInput
updateModalInput(a, key, env) ==
  CASE a.modalKind = modalCommandForm ->
         (CASE key = "esc" ->
                 Ret([closeModal([a EXCEPT !.formOpen = FALSE])
                        EXCEPT !.status = "Form canceled"], NilCmd)
            [] key = "up" ->
                 Ret([a EXCEPT !.formFieldIdx = IF @ > 0 THEN @ - 1 ELSE @], NilCmd)
            [] key \in {"down", "tab"} ->
                 Ret([a EXCEPT !.formFieldIdx =
                                 IF @ < Len(a.formFields) - 1 THEN @ + 1 ELSE 0], NilCmd)
            [] key = " " ->
                 IF Len(a.formFields) > 0 /\ CurrentField(a).kind = fieldBool
                   THEN Ret([a EXCEPT !.formFields[a.formFieldIdx + 1].boolValue = ~@],
                            NilCmd)
                   ELSE Ret(a, NilCmd)
            [] key = "backspace" ->
                 IF Len(a.formFields) > 0 /\ CurrentField(a).kind = fieldText
                    /\ Len(CurrentField(a).value) > 0
                   THEN Ret([a EXCEPT !.formFields[a.formFieldIdx + 1].value = DropLast(@)],
                            NilCmd)
                   ELSE Ret(a, NilCmd)
            [] key = "enter" ->
                 IF submitCommandForm(a).err # ""
                   THEN Ret([a EXCEPT !.status = "Error: " \o submitCommandForm(a).err],
                            NilCmd)
                   ELSE Ret([closeModal(a) EXCEPT !.busy = TRUE, !.status = "Running..."],
                            submitCommandForm(a).cmd)
            [] OTHER ->
                 IF Len(a.formFields) > 0 /\ CurrentField(a).kind = fieldText
                    /\ isPrintableKey(key)
                   THEN Ret([a EXCEPT !.formFields[a.formFieldIdx + 1].value =
                                        Append(@, key)], NilCmd)
                   ELSE Ret(a, NilCmd))
    [] a.modalKind \in {modalRestoreBrowse, modalRestoreSelectRepo} ->
         updateRestoreFlow(a, key, env)
    [] a.modalKind = modalRestoreYesNo ->
         (CASE key = "esc" ->
                 Ret([closeModal(a) EXCEPT !.restoreState.stage = restoreStageSelectRepo,
                                           !.status = "Restore: select repository"],
                     NilCmd)
            [] key = "backspace" ->
                 Ret([a EXCEPT !.restoreState.promptInput =
                                 IF Len(@) > 0 THEN DropLast(@) ELSE @], NilCmd)
            [] key = "enter" ->
                 IF ~parseYesNo(a.restoreState.promptInput).valid
                   THEN Ret([a EXCEPT !.status = "Please answer yes or no"], NilCmd)
                 ELSE IF parseYesNo(a.restoreState.promptInput).yes
                   THEN IF submitRestore(a).err # ""
                          THEN Ret([a EXCEPT !.status = "Error: " \o submitRestore(a).err],
                                   NilCmd)
                          ELSE Ret([closeModal(a) EXCEPT !.busy = TRUE,
                                                         !.status = "Running restore..."],
                                   submitRestore(a).cmd)
                 ELSE Ret(openRestoreRenameModal(a, SeedName), BlinkCmd)
            [] OTHER ->
                 IF isPrintableKey(key)
                   THEN Ret([a EXCEPT !.restoreState.promptInput = Append(@, key)], NilCmd)
                   ELSE Ret(a, NilCmd))
    [] a.modalKind = modalRestoreRename ->
         (CASE key = "esc" ->
                 Ret(openRestoreYesNoModal(
                       [a EXCEPT !.restoreState.stage = restoreStageAskUseOriginal]),
                     BlinkCmd)
            [] key = "backspace" ->
                 Ret([a EXCEPT !.restoreState.promptInput =
                                 IF Len(@) > 0 THEN DropLast(@) ELSE @], NilCmd)
            [] key = "enter" ->
                 IF TrimSpace(a.restoreState.promptInput) = <<>>
                   THEN Ret([a EXCEPT !.status = "New name is required"], NilCmd)
                 ELSE IF submitRestore(a).err # ""
                   THEN Ret([a EXCEPT !.status = "Error: " \o submitRestore(a).err], NilCmd)
                 ELSE Ret([closeModal(a) EXCEPT !.busy = TRUE,
                                                !.status = "Running restore..."],
                          submitRestore(a).cmd)
            [] OTHER ->
                 IF isPrintableKey(key)
                   THEN Ret([a EXCEPT !.restoreState.promptInput = Append(@, key)], NilCmd)
                   ELSE Ret(a, NilCmd))
    [] a.modalKind = modalDeleteConfirm ->
         (CASE key = "esc" ->
                 Ret([closeModal(a) EXCEPT !.status = "Delete canceled"], NilCmd)
            [] key = "backspace" ->
                 Ret([a EXCEPT !.deleteInput = IF Len(@) > 0 THEN DropLast(@) ELSE @],
                     NilCmd)
            [] key = "enter" ->
                 IF ~a.callbacks.Delete
                   THEN Ret([a EXCEPT !.status = "Error: delete callback unavailable"],
                            NilCmd)
                 ELSE IF ~deleteConfirmed(a)
                   THEN Ret([a EXCEPT !.status =
                                        "Error: confirmation must match repository name"],
                            NilCmd)
                 ELSE Ret([closeModal(a) EXCEPT !.busy = TRUE, !.status = "Deleting..."],
                          CallbackCmd("Delete", a.deleteRepo, TRUE))
            [] OTHER ->
                 IF isPrintableKey(key)
                   THEN Ret([a EXCEPT !.deleteInput = Append(@, key)], NilCmd)
                   ELSE Ret(a, NilCmd))
    [] a.modalKind = modalSettings -> updateSettingsModal(a, key, env)
    [] a.modalKind = modalResult ->
         (CASE key \in {"esc", "enter", " "} -> Ret(closeModal(a), NilCmd)
            [] key = "up" ->
                 Ret([a EXCEPT !.resultScroll = IF @ > 0 THEN @ - 1 ELSE @], NilCmd)
            [] key = "down" -> Ret([a EXCEPT !.resultScroll = @ + 1], NilCmd)
            [] OTHER -> Ret(a, NilCmd))
    [] OTHER -> Ret(a, NilCmd)

\* updateBrowse
updateBrowse(a, key) ==
  CASE key \in {"up", "k"} -> [a EXCEPT !.table = moveCursor(@, -1)]
    [] key \in {"down", "j"} -> [a EXCEPT !.table = moveCursor(@, 1)]
    [] key = " " -> [a EXCEPT !.table = toggleCurrent(@)]
    [] key = "backspace" -> [a EXCEPT !.table = backspaceFilter(@)]
    [] key = "n" -> [a EXCEPT !.table = setSortField(@, sortFieldName)]
    [] key = "u" -> [a EXCEPT !.table = setSortField(@, sortFieldUpdated)]
    [] key = "v" -> [a EXCEPT !.table = setSortField(@, sortFieldVisibility)]
    [] OTHER -> [a EXCEPT !.table = appendFilterChar(@, key)]

\* updateCommands
updateCommands(a, key, env) ==
  IF a.restoreState.active THEN updateRestoreFlow(a, key, env)
  ELSE CASE key \in {"up", "k"} ->
              Ret([a EXCEPT !.cmdCursor = IF @ > 0 THEN @ - 1 ELSE @], NilCmd)
         [] key \in {"down", "j"} ->
              Ret([a EXCEPT !.cmdCursor = IF @ < Len(a.commands) - 1 THEN @ + 1 ELSE @],
                  NilCmd)
         [] key = "enter" -> openFormForCurrentCommand(a)
         [] OTHER -> Ret(a, NilCmd)

\* appModel.Update for a tea.KeyMsg with text s.
updateKey(a, s, env) ==
  IF s = "ctrl+c" \/ s = "q" THEN Ret([a EXCEPT !.quitting = TRUE], QuitCmd)
  ELSE IF a.busy THEN Ret(a, NilCmd)
  ELSE IF a.modalActive THEN updateModalInput(a, s, env)
  ELSE CASE s = "1" ->
              Ret(closeModal([a EXCEPT !.activeMode = modeBrowse, !.activePane = paneTable,
                                       !.formOpen = FALSE, !.restoreState = NoRestore]),
                  NilCmd)
         [] s = "2" ->
              Ret([a EXCEPT !.activeMode = modeCommands, !.activePane = paneCommands],
                  NilCmd)
         [] s = "3" ->
              Ret(closeModal([a EXCEPT !.activeMode = modeDetails, !.activePane = paneTable,
                                       !.formOpen = FALSE, !.restoreState = NoRestore]),
                  NilCmd)
         [] s = "tab" ->
              Ret([a EXCEPT !.activePane = IF @ = paneTable THEN paneCommands
                                                            ELSE paneTable], NilCmd)
         [] OTHER ->
              IF a.activeMode = modeCommands \/ a.activePane = paneCommands
                THEN updateCommands(a, s, env)
                ELSE Ret(updateBrowse(a, s), NilCmd)

\* The results a command can end with.
CommandOutcomes == {"ok", "error", "target_exists"}

\* appModel.Update for a commandResultMsg of a command that was given the
\* refreshRepos flag `refresh` for its success.
updateCommandResult(a, outcome, refresh) ==
  LET b == [a EXCEPT !.busy = FALSE] IN
  IF outcome # "ok"
    THEN IF b.restoreState.active /\ outcome = "target_exists"
           THEN Ret(openRestoreRenameModal(
                      [b EXCEPT !.restoreState.stage = restoreStageInputNewName,
                                !.status = "Target exists; choose another name"],
                      SeedName), BlinkCmd)
           ELSE Ret(openResultModal([b EXCEPT !.status = "Error: command failed"],
                                    "error"), NilCmd)
    ELSE LET c == closeModal([b EXCEPT !.status = "Command complete",
                                        !.formOpen = FALSE])
             d == IF c.restoreState.active THEN [c EXCEPT !.restoreState = NoRestore]
                                           ELSE c
         IN IF refresh /\ d.callbacks.RefreshRepos
              THEN Ret(openResultModal(
                         [d EXCEPT !.status =
                                     "Command complete (refreshing repositories...)"],
                         "output"), RefreshCmd)
              ELSE Ret(openResultModal(d, "output"), NilCmd)

\* appModel.Update for a reposRefreshedMsg; repos is <<>> with ok FALSE for
\* an error.
updateReposRefreshed(a, repos, ok) ==
  IF ~ok THEN Ret([a EXCEPT !.status = "Warning: refresh failed"], NilCmd)
  ELSE Ret([a EXCEPT !.table = replaceRepos(@, repos),
                     !.status = "Command complete (repositories refreshed)"], NilCmd)

\* appModel.Update for an updateRunMsg.
updateUpdateRun(a, ok) ==
  LET b == [a EXCEPT !.settings.updateBusy = FALSE] IN
  IF ~ok THEN Ret(b, NilCmd) ELSE Ret(openResultModal(b, "output"), NilCmd)

(***************************************************************************)
(* State                                                                   *)
(***************************************************************************)
VARIABLES
  pc,             \* position of the running Execute: "idle" (no process),
                  \* "confirm", "prepare", "item", "mirror",
                  \* "snapshot", "bundle", "delete", "persist", "archive",
                  \* "ensure", "publish", "final", "done" (returned)
  cfg,            \* Config, as Execute holds it
  e,              \* Executor: which collaborators are wired (TRUE: not nil)
  plan,           \* the plan handed to Execute
  stdin,          \* unread content of the input stream e.In
  backupRoot,     \* the resolved backup root
  m,              \* the manifest in memory
  loc,            \* the other locals of Execute
  result,         \* the returned Result
  err,            \* the returned error ("" for nil)
  disk,           \* per backup root: the directory, the manifest file, the bundle files
  clock,          \* e.Now(), one tick per invocation
  log,            \* collaborator calls of the current invocation, in order
  remoteDeleted,  \* targets for which a DeleteRepo call has returned nil
  m0,             \* the manifest as loaded or created by the current invocation
  out,            \* what the current invocation printed: the prompt, dry-run lines
  faults,         \* failures injected so far
  ppc,            \* plan file: "none", "new", "signed", "edited", "checked"
  newArgs,        \* plan file: the arguments New was called with
  pl,             \* plan file: the DeletionPlanV1 value
  signed,         \* plan file: the plan as Sign left it
  secret,         \* plan file: the secret Sign was called with
  vsecret,        \* plan file: the secret Validate was called with
  verr,           \* plan file: the error Validate returned ("" for nil)
  tpc,            \* TUI: "none" (not started), "running", "exited"
  app,            \* TUI: the appModel
  cmd,            \* TUI: the command the last Update returned
  inflight,       \* TUI: the commands started and not yet ended
  nkeys           \* TUI: keys pressed so far

execVars == <<pc, cfg, e, plan, stdin, backupRoot, m, loc, result, err, disk, clock,
              log, remoteDeleted, m0, out, faults>>

planVars == <<ppc, newArgs, pl, signed, secret, vsecret, verr>>

tuiVars == <<tpc, app, cmd, inflight, nkeys>>

vars == <<execVars, planVars, tuiVars>>

ZeroCfg ==
  [Mode |-> "", Resume |-> FALSE, BackupDir |-> NoDir, DryRun |-> FALSE,
   NoArchive |-> FALSE, MaxDeleteRetries |-> 0]

AllWired == [GH |-> TRUE, Backup |-> TRUE, RepoMgr |-> TRUE, Archive |-> TRUE]

ZeroLoc ==
  [i |-> 0, archiveBundles |-> <<>>, eligibleBundles |-> <<>>, attempt |-> 0,
   after |-> "", fatal |-> FALSE, retErr |-> ""]

ZeroOut == [prompted |-> FALSE, simLines |-> 0]

\* The full names of the targets of the plans.
TargetNames == UNION {SeqToSet(p.Repos) : p \in Plans}

\* A bundle file of a backup root: the folder it is in ("" while there is
\* none, "bundles", "archive-skipped-size") and its size in bytes.
NoBundle == [at |-> "", size |-> 0]

NoFile == [dir |-> FALSE, file |-> FALSE, manifest |-> NoManifest,
           bundles |-> [n \in TargetNames |-> NoBundle]]

NoArgs == [actor |-> "", host |-> "", toolVersion |-> "", repos |-> <<>>,
           now |-> [year |-> 0, zone |-> 0]]

\* The zero DeletionPlanV1.
NoPlanFile ==
  [SchemaVersion |-> "", CreatedAt |-> <<>>, Actor |-> "", Host |-> "", Repos |-> <<>>,
   Count |-> 0, Fingerprint |-> NoHex, Signature |-> NoHex, ToolVersion |-> ""]

Init ==
  /\ pc = "idle"
  /\ cfg = ZeroCfg
  /\ e = AllWired
  /\ plan = NoPlan
  /\ stdin = <<>>
  /\ backupRoot = NoDir
  /\ m = NoManifest
  /\ loc = ZeroLoc
  /\ result = ZeroResult
  /\ err = ""
  /\ disk = [r \in Roots |-> NoFile]
  /\ clock = 1
  /\ log = <<>>
  /\ remoteDeleted = {}
  /\ m0 = NoManifest
  /\ out = ZeroOut
  /\ faults = 0
  /\ ppc = "none"
  /\ newArgs = NoArgs
  /\ pl = NoPlanFile
  /\ signed = NoPlanFile
  /\ secret = <<>>
  /\ vsecret = <<>>
  /\ verr = ""
  /\ tpc = "none"
  /\ app = ZeroApp
  /\ cmd = NilCmd
  /\ inflight = [command |-> NilCmd, refresh |-> FALSE, update |-> FALSE]
  /\ nkeys = 0

(***************************************************************************)
(* Execute, step by step                                                   *)
(***************************************************************************)
\* return res, errText: the invocation is over.
Return(res, errText) ==
  /\ pc' = "done"
  /\ result' = res
  /\ err' = errText
  /\ loc' = ZeroLoc

\* n failures are injected in this step.
Fault(n) ==
  /\ faults + n <= MaxFaults
  /\ faults' = faults + n

Failed(ok) == IF ok THEN 0 ELSE 1

\* A collaborator call and its outcome.
Call(op, repo, ok) ==
  /\ log' = Append(log, [op |-> op, repo |-> repo, ok |-> ok])
  /\ Fault(Failed(ok))

Entry == m.RepoExecutions[loc.i]

SetEntry(entry) == [m EXCEPT !.RepoExecutions[loc.i] = entry]

\* The bookkeeping after a collaborator call: entry.Attempts++ and
\* entry.LastAttemptAt = now.
Attempted(entry) ==
  [entry EXCEPT !.Attempts = @ + 1, !.LastAttemptAt = clock]

TouchNow(mf) == Touch(mf, clock)

\* Go on to manifest.Write; `after` is where a completed write leads and
\* `fatal` whether a failed write makes Execute return its error.
Persist(mf, after, fatal) ==
  /\ m' = mf
  /\ pc' = "persist"
  /\ loc' = [loc EXCEPT !.after = after, !.fatal = fatal]

\* Execute goes on to the confirmation gate, with the input stream as the
\* caller set it up.
Prompt ==
  /\ stdin' \in ConfirmInputs
  /\ pc' = "confirm"
  /\ loc' = ZeroLoc
  /\ result' = ZeroResult
  /\ err' = ""

\* Lines 91-93: cfg.MaxDeleteRetries after the default is applied.
maxDeleteRetries(given) == IF given <= 0 THEN DefaultMaxDeleteRetries ELSE given

\* Lines 82-105: defaults and the configuration checks.
Execute ==
  /\ pc \in {"idle", "done"}
  /\ UNCHANGED <<planVars, tuiVars>>
  /\ clock <= MaxRuns
  /\ clock' = clock + 1
  /\ log' = <<>>
  /\ out' = ZeroOut
  /\ m' = NoManifest
  /\ m0' = NoManifest
  /\ plan' = NoPlan
  /\ backupRoot' = NoDir
  /\ UNCHANGED <<disk, remoteDeleted, faults>>
  /\ \E mode \in Modes :
       LET md == IF mode = "" THEN ModeDelete ELSE mode IN
       IF md # ModeDelete /\ md # ModeBackup
         THEN /\ cfg' = [ZeroCfg EXCEPT !.Mode = md]
              /\ e' = AllWired
              /\ stdin' = <<>>
              /\ Return(ZeroResult, "unsupported mode")
         ELSE \E backupWired \in BOOLEAN :
                IF ~backupWired
                  THEN /\ cfg' = [ZeroCfg EXCEPT !.Mode = md]
                       /\ e' = [AllWired EXCEPT !.Backup = FALSE]
                       /\ stdin' = <<>>
                       /\ Return(ZeroResult, "executor backup service is nil")
                  ELSE IF md = ModeDelete
                    THEN \E ghWired \in BOOLEAN, retries \in RetryChoices :
                           /\ cfg' = [ZeroCfg EXCEPT
                                        !.Mode = md,
                                        !.MaxDeleteRetries = maxDeleteRetries(retries)]
                           /\ e' = [AllWired EXCEPT !.GH = ghWired]
                           /\ IF ~ghWired
                                THEN /\ stdin' = <<>>
                                     /\ Return(ZeroResult, "executor GH client is nil")
                                ELSE Prompt
                    ELSE /\ cfg' = [ZeroCfg EXCEPT !.Mode = md]
                         /\ e' = AllWired
                         /\ Prompt

\* findExistingBackupRoot: the last, in name order, of the home-directory
\* roots whose manifest reads and carries the fingerprint; NoDir for "".
findExistingBackupRoot(fingerprint) ==
  LET candidates == {r \in HomeRoots :
                       /\ disk[r].dir
                       /\ disk[r].file
                       /\ disk[r].manifest.PlanFingerprint = fingerprint}
  IN IF candidates = {} THEN NoDir
     ELSE CHOOSE r \in candidates : \A q \in candidates : q <= r

\* app.DefaultBackupRoot: the home-directory root named by the time.
DefaultBackupRoot(now) == now

\* Executor.resolveBackupRoot
resolveBackupRoot(fingerprint, explicit, resume) ==
  IF explicit # NoDir THEN explicit
  ELSE IF resume /\ findExistingBackupRoot(fingerprint) # NoDir
    THEN findExistingBackupRoot(fingerprint)
    ELSE DefaultBackupRoot(clock)

\* Lines 112-114: the confirmation gate.
RequireConfirmation ==
  /\ pc = "confirm"
  /\ UNCHANGED <<planVars, tuiVars>>
  /\ out' = [out EXCEPT !.prompted = TRUE]
  /\ stdin' = <<>>
  /\ IF requireConfirmation(stdin) # ""
       THEN Return(ZeroResult, requireConfirmation(stdin))
       ELSE /\ pc' = "prepare"
            /\ UNCHANGED <<loc, result, err>>
  /\ UNCHANGED <<cfg, e, plan, backupRoot, m, disk, clock, log, remoteDeleted, m0, faults>>

\* A faulty variant of loadError: the recorded mode is not compared (C7 must
\* reject it).
loadError_NoModeCheck(resume, mode, fingerprint, mf) ==
  IF ~resume THEN "manifest already exists and --resume=false"
  ELSE IF mf.PlanFingerprint # fingerprint THEN "manifest plan fingerprint mismatch"
  ELSE ""

\* loadOrCreateManifest, for a manifest file that exists: the error, "" for nil.
loadError(resume, mode, fingerprint, mf) ==
  IF ~resume THEN "manifest already exists and --resume=false"
  ELSE IF mf.PlanFingerprint # fingerprint THEN "manifest plan fingerprint mismatch"
  ELSE IF mf.Mode # "" /\ mode # "" /\ mf.Mode # mode THEN "manifest mode mismatch"
  ELSE ""

\* Lines 107-110 and 116-134: the backup root, then the dry run, or the
\* backup root directory and the manifest. resolveBackupRoot has no effect
\* but its result, which is first used here, after the confirmation; the
\* plan, cfg.BackupDir and cfg.Resume are drawn with it (cfg.Resume only
\* where its value is consulted with an effect: a home-directory root
\* matches, or the explicit directory holds a manifest).
Prepare ==
  /\ pc = "prepare"
  /\ UNCHANGED <<planVars, tuiVars>>
  /\ UNCHANGED <<e, stdin, clock, log, remoteDeleted>>
  /\ \E p \in Plans, dir \in BackupDirs, resume \in BOOLEAN,
        dry \in BOOLEAN, noArchive \in BOOLEAN, mkdirOK \in BOOLEAN, writeOK \in BOOLEAN :
       LET root == resolveBackupRoot(p.Fingerprint, dir, resume)
           c    == [cfg EXCEPT !.BackupDir = dir, !.Resume = resume]
       IN
       /\ (dir # NoDir /\ ~disk[dir].file) => ~resume
       /\ (dir = NoDir /\ findExistingBackupRoot(p.Fingerprint) = NoDir) => ~resume
       /\ plan' = p
       /\ backupRoot' = root
       /\ Fault(Failed(mkdirOK) + Failed(writeOK))
       /\ IF dry
            THEN \* simulate reads cfg.NoArchive in backup mode
                 /\ (cfg.Mode # ModeBackup => ~noArchive)
                 /\ mkdirOK /\ writeOK
                 /\ cfg' = [c EXCEPT !.DryRun = TRUE, !.NoArchive = noArchive]
                 /\ out' = [out EXCEPT !.simLines = simulateLines(p, cfg.Mode, noArchive)]
                 /\ Return(simulate(p, root), "")
                 /\ UNCHANGED <<m, disk, m0>>
            ELSE /\ ~noArchive
                 /\ cfg' = c
                 /\ UNCHANGED out
                 /\ IF ~mkdirOK
                      THEN /\ writeOK
                           /\ Return(ZeroResult, "mkdir failed")
                           /\ UNCHANGED <<m, disk, m0>>
                      ELSE IF disk[root].file
                        THEN /\ writeOK
                             /\ disk' = [disk EXCEPT ![root].dir = TRUE]
                             /\ LET mf == disk[root].manifest
                                    le == loadError(resume, cfg.Mode, p.Fingerprint, mf)
                                IN IF le # ""
                                     THEN /\ Return(ZeroResult, le)
                                          /\ UNCHANGED <<m, m0>>
                                     ELSE /\ m' = mf
                                          /\ m0' = mf
                                          /\ pc' = "item"
                                          /\ loc' = [ZeroLoc EXCEPT !.i = 1]
                                          /\ UNCHANGED <<result, err>>
                        ELSE LET mf == ManifestNew(p, clock, cfg.Mode) IN
                             IF ~writeOK
                               THEN /\ disk' = [disk EXCEPT ![root].dir = TRUE]
                                    /\ Return(ZeroResult, "manifest write failed")
                                    /\ UNCHANGED <<m, m0>>
                               ELSE /\ disk' = [disk EXCEPT ![root].dir = TRUE,
                                                                ![root].file = TRUE,
                                                                ![root].manifest =
                                                                  WriteContent(mf)]
                                    /\ m' = mf
                                    /\ m0' = mf
                                    /\ pc' = "item"
                                    /\ loc' = [ZeroLoc EXCEPT !.i = 1]
                                    /\ UNCHANGED <<result, err>>

\* The files after manifest.Write with its outcome; a failed write leaves the
\* file as it was.
Written(d, mf, ok) ==
  IF ok THEN [d EXCEPT ![backupRoot].manifest = WriteContent(mf),
                       ![backupRoot].file = TRUE]
        ELSE d

WriteTo(mf, ok) == disk' = Written(disk, mf, ok)

\* A faulty variant of Item: a target missing from the plan goes through
\* the stages like any other (C32 must reject it).
Item_MissingGoesOn ==
  /\ pc = "item"
  /\ UNCHANGED <<planVars, tuiVars>>
  /\ UNCHANGED <<cfg, e, plan, stdin, backupRoot, clock, log, remoteDeleted, m0, out,
                 result, err>>
  /\ IF loc.i > Len(m.RepoExecutions)
       THEN /\ pc' = "archive"
            /\ UNCHANGED <<m, loc, disk, faults>>
       ELSE IF shouldSkipEntry(cfg.Mode, Entry)
         THEN /\ loc' = [loc EXCEPT !.i = @ + 1]
              /\ UNCHANGED <<pc, m, disk, faults>>
         ELSE IF FALSE
           THEN \E writeOK \in BOOLEAN :
                  /\ Fault(Failed(writeOK))
                  /\ m' = Touch(SetEntry([Attempted(Entry) EXCEPT
                                            !.Status = StatusDeleteFailed,
                                            !.Error = "repo missing from plan"]), clock)
                  /\ WriteTo(m', writeOK)
                  /\ loc' = [loc EXCEPT !.i = @ + 1]
                  /\ UNCHANGED pc
           ELSE /\ pc' = "mirror"
                /\ UNCHANGED <<m, loc, disk, faults>>

\* A faulty variant of Item: the plan is consulted before the resume skip
\* (C35 must reject it).
Item_MissingBeforeSkip ==
  /\ pc = "item"
  /\ UNCHANGED <<planVars, tuiVars>>
  /\ UNCHANGED <<cfg, e, plan, stdin, backupRoot, clock, log, remoteDeleted, m0, out,
                 result, err>>
  /\ IF loc.i > Len(m.RepoExecutions)
       THEN /\ pc' = "archive"
            /\ UNCHANGED <<m, loc, disk, faults>>
       ELSE IF shouldSkipEntry(cfg.Mode, Entry)
                 /\ Entry.FullName \in SeqToSet(plan.Repos)
         THEN /\ loc' = [loc EXCEPT !.i = @ + 1]
              /\ UNCHANGED <<pc, m, disk, faults>>
         ELSE IF Entry.FullName \notin SeqToSet(plan.Repos)
           THEN \E writeOK \in BOOLEAN :
                  /\ Fault(Failed(writeOK))
                  /\ m' = Touch(SetEntry([Attempted(Entry) EXCEPT
                                            !.Status = StatusDeleteFailed,
                                            !.Error = "repo missing from plan"]), clock)
                  /\ WriteTo(m', writeOK)
                  /\ loc' = [loc EXCEPT !.i = @ + 1]
                  /\ UNCHANGED pc
           ELSE /\ pc' = "mirror"
                /\ UNCHANGED <<m, loc, disk, faults>>

\* Lines 136-150: the loop head, the resume skip and a target missing from
\* the plan.
Item ==
  /\ pc = "item"
  /\ UNCHANGED <<planVars, tuiVars>>
  /\ UNCHANGED <<cfg, e, plan, stdin, backupRoot, clock, log, remoteDeleted, m0, out,
                 result, err>>
  /\ IF loc.i > Len(m.RepoExecutions)
       THEN /\ pc' = "archive"
            /\ UNCHANGED <<m, loc, disk, faults>>
       ELSE IF shouldSkipEntry(cfg.Mode, Entry)
         THEN /\ loc' = [loc EXCEPT !.i = @ + 1]
              /\ UNCHANGED <<pc, m, disk, faults>>
         ELSE IF Entry.FullName \notin SeqToSet(plan.Repos)
           THEN \E writeOK \in BOOLEAN :
                  /\ Fault(Failed(writeOK))
                  /\ m' = Touch(SetEntry([Attempted(Entry) EXCEPT
                                            !.Status = StatusDeleteFailed,
                                            !.Error = "repo missing from plan"]), clock)
                  /\ WriteTo(m', writeOK)
                  /\ loc' = [loc EXCEPT !.i = @ + 1]
                  /\ UNCHANGED pc
           ELSE /\ pc' = "mirror"
                /\ UNCHANGED <<m, loc, disk, faults>>

\* A faulty variant of Mirror: a failed mirror is not recorded on the entry
\* (C16 must reject it).
Mirror_FailureUnrecorded ==
  /\ pc = "mirror"
  /\ UNCHANGED <<planVars, tuiVars>>
  /\ UNCHANGED <<cfg, e, plan, stdin, backupRoot, clock, remoteDeleted, m0, out,
                 result, err, disk>>
  /\ IF Entry.BackupPath = "" \/ Entry.Status = StatusPending
        \/ Entry.Status = StatusBackupFailed
       THEN \E ok \in BOOLEAN :
              /\ Call("mirror", Entry.FullName, ok)
              /\ IF ok
                   THEN Persist(TouchNow(SetEntry([Attempted(Entry) EXCEPT
                                            !.BackupPath = "mirror.git",
                                            !.Status = StatusBackupOK,
                                            !.Error = ""])), "snapshot", TRUE)
                   ELSE Persist(TouchNow(SetEntry(Attempted(Entry))), "next", FALSE)
       ELSE /\ pc' = "snapshot"
            /\ UNCHANGED <<m, loc, log, faults>>

\* Lines 152-172: the mirror backup.
Mirror ==
  /\ pc = "mirror"
  /\ UNCHANGED <<planVars, tuiVars>>
  /\ UNCHANGED <<cfg, e, plan, stdin, backupRoot, clock, remoteDeleted, m0, out,
                 result, err, disk>>
  /\ IF Entry.BackupPath = "" \/ Entry.Status = StatusPending
        \/ Entry.Status = StatusBackupFailed
       THEN \E ok \in BOOLEAN :
              /\ Call("mirror", Entry.FullName, ok)
              /\ IF ok
                   THEN Persist(TouchNow(SetEntry([Attempted(Entry) EXCEPT
                                            !.BackupPath = "mirror.git",
                                            !.Status = StatusBackupOK,
                                            !.Error = ""])), "snapshot", TRUE)
                   ELSE Persist(TouchNow(SetEntry([Attempted(Entry) EXCEPT
                                            !.Status = StatusBackupFailed,
                                            !.Error = "mirror failed"])), "next", FALSE)
       ELSE /\ pc' = "snapshot"
            /\ UNCHANGED <<m, loc, log, faults>>

\* A faulty variant of AfterSnapshot: the delete in either mode (C6 must
\* reject it).
AfterSnapshot_AlwaysDelete(mode) == "delete"

\* Line 194: after the snapshot, the bundle in backup mode, else the delete.
AfterSnapshot(mode) == IF mode = ModeBackup THEN "bundle" ELSE "delete"

\* A faulty variant of Snapshot: a failed snapshot does not end the item
\* (C1 must reject it).
Snapshot_NoContinue ==
  /\ pc = "snapshot"
  /\ UNCHANGED <<planVars, tuiVars>>
  /\ UNCHANGED <<cfg, e, plan, stdin, backupRoot, clock, remoteDeleted, m0, out,
                 result, err, disk>>
  /\ IF Entry.BrowsablePath = ""
       THEN \E ok \in BOOLEAN :
              /\ Call("snapshot", Entry.FullName, ok)
              /\ IF ok
                   THEN Persist(TouchNow(SetEntry([Attempted(Entry) EXCEPT
                                            !.BrowsablePath = "snapshots/repo",
                                            !.Error = ""])),
                                AfterSnapshot(cfg.Mode), TRUE)
                   ELSE Persist(TouchNow(SetEntry([Attempted(Entry) EXCEPT
                                            !.Status = StatusBackupFailed,
                                            !.Error = "snapshot failed"])),
                                AfterSnapshot(cfg.Mode), FALSE)
       ELSE /\ pc' = AfterSnapshot(cfg.Mode)
            /\ UNCHANGED <<m, loc, log, faults>>

\* A faulty variant of Snapshot: the error of the manifest write after a
\* successful snapshot is discarded (C37 must reject it).
Snapshot_WriteNotFatal ==
  /\ pc = "snapshot"
  /\ UNCHANGED <<planVars, tuiVars>>
  /\ UNCHANGED <<cfg, e, plan, stdin, backupRoot, clock, remoteDeleted, m0, out,
                 result, err, disk>>
  /\ IF Entry.BrowsablePath = ""
       THEN \E ok \in BOOLEAN :
              /\ Call("snapshot", Entry.FullName, ok)
              /\ IF ok
                   THEN Persist(TouchNow(SetEntry([Attempted(Entry) EXCEPT
                                            !.BrowsablePath = "snapshots/repo",
                                            !.Error = ""])),
                                AfterSnapshot(cfg.Mode), FALSE)
                   ELSE Persist(TouchNow(SetEntry([Attempted(Entry) EXCEPT
                                            !.Status = StatusBackupFailed,
                                            !.Error = "snapshot failed"])), "next", FALSE)
       ELSE /\ pc' = AfterSnapshot(cfg.Mode)
            /\ UNCHANGED <<m, loc, log, faults>>

\* Lines 173-192: the browsable snapshot.
Snapshot ==
  /\ pc = "snapshot"
  /\ UNCHANGED <<planVars, tuiVars>>
  /\ UNCHANGED <<cfg, e, plan, stdin, backupRoot, clock, remoteDeleted, m0, out,
                 result, err, disk>>
  /\ IF Entry.BrowsablePath = ""
       THEN \E ok \in BOOLEAN :
              /\ Call("snapshot", Entry.FullName, ok)
              /\ IF ok
                   THEN Persist(TouchNow(SetEntry([Attempted(Entry) EXCEPT
                                            !.BrowsablePath = "snapshots/repo",
                                            !.Error = ""])),
                                AfterSnapshot(cfg.Mode), TRUE)
                   ELSE Persist(TouchNow(SetEntry([Attempted(Entry) EXCEPT
                                            !.Status = StatusBackupFailed,
                                            !.Error = "snapshot failed"])), "next", FALSE)
       ELSE /\ pc' = AfterSnapshot(cfg.Mode)
            /\ UNCHANGED <<m, loc, log, faults>>

\* A faulty variant of Bundle: a failed CreateBundle still queues the item
\* for the archive step (C25 must reject it).
Bundle_FailureQueued ==
  /\ pc = "bundle"
  /\ UNCHANGED <<planVars, tuiVars>>
  /\ UNCHANGED <<cfg, e, plan, stdin, backupRoot, clock, remoteDeleted, m0, out,
                 result, err>>
  /\ IF Entry.BundlePath = ""
       THEN \E ok \in BOOLEAN :
              /\ Call("bundle", Entry.FullName, ok)
              /\ IF ok
                   THEN /\ \E size \in BundleSizes :
                             disk' = [disk EXCEPT ![backupRoot].bundles[Entry.FullName] =
                                        [at |-> "bundles", size |-> size]]
                        /\ Persist(TouchNow(SetEntry([Attempted(Entry) EXCEPT
                                            !.BundlePath = "bundles/repo.bundle",
                                            !.Error = ""])), "enqueue", TRUE)
                   ELSE /\ UNCHANGED disk
                        /\ Persist(TouchNow(SetEntry([Attempted(Entry) EXCEPT
                                            !.Status = StatusBackupFailed,
                                            !.Error = "bundle failed"])), "enqueue", FALSE)
       ELSE /\ loc' = [loc EXCEPT !.archiveBundles = Append(@, Entry.FullName),
                                  !.i = @ + 1]
            /\ pc' = "item"
            /\ UNCHANGED <<m, log, faults, disk>>

\* Lines 194-221: backup mode, the bundle and the archive queue. A successful
\* CreateBundle leaves the bundle file in the bundles folder of the root.
Bundle ==
  /\ pc = "bundle"
  /\ UNCHANGED <<planVars, tuiVars>>
  /\ UNCHANGED <<cfg, e, plan, stdin, backupRoot, clock, remoteDeleted, m0, out,
                 result, err>>
  /\ IF Entry.BundlePath = ""
       THEN \E ok \in BOOLEAN :
              /\ Call("bundle", Entry.FullName, ok)
              /\ IF ok
                   THEN /\ \E size \in BundleSizes :
                             disk' = [disk EXCEPT ![backupRoot].bundles[Entry.FullName] =
                                        [at |-> "bundles", size |-> size]]
                        /\ Persist(TouchNow(SetEntry([Attempted(Entry) EXCEPT
                                            !.BundlePath = "bundles/repo.bundle",
                                            !.Error = ""])), "enqueue", TRUE)
                   ELSE /\ UNCHANGED disk
                        /\ Persist(TouchNow(SetEntry([Attempted(Entry) EXCEPT
                                            !.Status = StatusBackupFailed,
                                            !.Error = "bundle failed"])), "next", FALSE)
       ELSE /\ loc' = [loc EXCEPT !.archiveBundles = Append(@, Entry.FullName),
                                  !.i = @ + 1]
            /\ pc' = "item"
            /\ UNCHANGED <<m, log, faults, disk>>

\* A faulty variant of Delete: the retry loop runs once more than configured
\* (C14 must reject it).
Delete_OneTooMany ==
  /\ pc = "delete"
  /\ UNCHANGED <<planVars, tuiVars>>
  /\ UNCHANGED <<cfg, e, plan, stdin, backupRoot, clock, m0, out, result, err, disk>>
  /\ \E ok \in BOOLEAN :
       /\ Call("delete", Entry.FullName, ok)
       /\ remoteDeleted' = IF ok THEN remoteDeleted \cup {Entry.FullName}
                                 ELSE remoteDeleted
       /\ IF ok
            THEN Persist(TouchNow(SetEntry([Attempted(Entry) EXCEPT
                                     !.Status = StatusDeleted, !.Error = ""])),
                         "next", TRUE)
            ELSE IF loc.attempt + 1 > cfg.MaxDeleteRetries
              THEN Persist(TouchNow(SetEntry([Attempted(Entry) EXCEPT
                                       !.Status = StatusDeleteFailed,
                                       !.Error = "delete failed"])),
                           "next", TRUE)
              ELSE /\ loc' = [loc EXCEPT !.attempt = @ + 1]
                   /\ UNCHANGED <<pc, m>>

\* A faulty variant of Delete: every DeleteRepo call of the retry loop is
\* counted as an attempt (C15 must reject it).
Delete_CountsEveryCall ==
  /\ pc = "delete"
  /\ UNCHANGED <<planVars, tuiVars>>
  /\ UNCHANGED <<cfg, e, plan, stdin, backupRoot, clock, m0, out, result, err, disk>>
  /\ \E ok \in BOOLEAN :
       /\ Call("delete", Entry.FullName, ok)
       /\ remoteDeleted' = IF ok THEN remoteDeleted \cup {Entry.FullName}
                                 ELSE remoteDeleted
       /\ IF ok
            THEN Persist(TouchNow(SetEntry([Attempted(Entry) EXCEPT
                                     !.Status = StatusDeleted, !.Error = ""])),
                         "next", TRUE)
            ELSE IF loc.attempt + 1 >= cfg.MaxDeleteRetries
              THEN Persist(TouchNow(SetEntry([Attempted(Entry) EXCEPT
                                       !.Status = StatusDeleteFailed,
                                       !.Error = "delete failed"])),
                           "next", TRUE)
              ELSE /\ loc' = [loc EXCEPT !.attempt = @ + 1]
                   /\ m' = SetEntry(Attempted(Entry))
                   /\ UNCHANGED pc

\* A faulty variant of Delete: a failed DeleteRepo is retried without limit
\* (C40 must reject it).
Delete_RetriesUnbounded ==
  /\ pc = "delete"
  /\ UNCHANGED <<planVars, tuiVars>>
  /\ UNCHANGED <<cfg, e, plan, stdin, backupRoot, clock, m0, out, result, err, disk>>
  /\ \E ok \in BOOLEAN :
       /\ Call("delete", Entry.FullName, ok)
       /\ remoteDeleted' = IF ok THEN remoteDeleted \cup {Entry.FullName}
                                 ELSE remoteDeleted
       /\ IF ok
            THEN Persist(TouchNow(SetEntry([Attempted(Entry) EXCEPT
                                     !.Status = StatusDeleted, !.Error = ""])),
                         "next", TRUE)
            ELSE IF FALSE
              THEN Persist(TouchNow(SetEntry([Attempted(Entry) EXCEPT
                                       !.Status = StatusDeleteFailed,
                                       !.Error = "delete failed"])),
                           "next", TRUE)
              ELSE /\ loc' = [loc EXCEPT !.attempt = @ + 1]
                   /\ UNCHANGED <<pc, m>>

\* Lines 223-246: delete mode, one DeleteRepo call of the retry loop; the
\* bookkeeping follows the call that ends the loop.
Delete ==
  /\ pc = "delete"
  /\ UNCHANGED <<planVars, tuiVars>>
  /\ UNCHANGED <<cfg, e, plan, stdin, backupRoot, clock, m0, out, result, err, disk>>
  /\ \E ok \in BOOLEAN :
       /\ Call("delete", Entry.FullName, ok)
       /\ remoteDeleted' = IF ok THEN remoteDeleted \cup {Entry.FullName}
                                 ELSE remoteDeleted
       /\ IF ok
            THEN Persist(TouchNow(SetEntry([Attempted(Entry) EXCEPT
                                     !.Status = StatusDeleted, !.Error = ""])),
                         "next", TRUE)
            ELSE IF loc.attempt + 1 >= cfg.MaxDeleteRetries
              THEN Persist(TouchNow(SetEntry([Attempted(Entry) EXCEPT
                                       !.Status = StatusDeleteFailed,
                                       !.Error = "delete failed"])),
                           "next", TRUE)
              ELSE /\ loc' = [loc EXCEPT !.attempt = @ + 1]
                   /\ UNCHANGED <<pc, m>>

\* manifest.Write after a step, and where Execute goes from there.
PersistStep ==
  /\ pc = "persist"
  /\ UNCHANGED <<planVars, tuiVars>>
  /\ UNCHANGED <<cfg, e, plan, stdin, backupRoot, clock, log, remoteDeleted, m0, out, m>>
  /\ \E writeOK \in BOOLEAN :
       /\ Fault(Failed(writeOK))
       /\ WriteTo(m, writeOK)
       /\ IF ~writeOK /\ loc.fatal
            THEN Return(ZeroResult, "manifest write failed")
            ELSE CASE loc.after = "next" ->
                        /\ pc' = "item"
                        /\ loc' = [loc EXCEPT !.i = @ + 1, !.attempt = 0,
                                              !.after = "", !.fatal = FALSE]
                        /\ UNCHANGED <<result, err>>
                   [] loc.after = "enqueue" ->
                        /\ pc' = "item"
                        /\ loc' = [loc EXCEPT !.archiveBundles = Append(@, Entry.FullName),
                                              !.i = @ + 1, !.after = "", !.fatal = FALSE]
                        /\ UNCHANGED <<result, err>>
                   [] loc.after = "return" ->
                        Return(ZeroResult, loc.retErr)
                   [] OTHER ->
                        /\ pc' = loc.after
                        /\ loc' = [loc EXCEPT !.after = "", !.fatal = FALSE]
                        /\ UNCHANGED <<result, err>>

\* Lines 248-267 and 289-293: after the loop; in backup mode the size filter
\* over the queued bundles, or the archive step skipped.
Archive ==
  /\ pc = "archive"
  /\ UNCHANGED <<planVars, tuiVars>>
  /\ UNCHANGED <<e, plan, stdin, backupRoot, clock, log, remoteDeleted, m0, out,
                 result, err>>
  /\ IF cfg.Mode # ModeBackup
       THEN /\ pc' = "final"
            /\ UNCHANGED <<cfg, m, loc, disk, faults>>
       ELSE \E noArchive \in BOOLEAN, writeOK \in BOOLEAN :
              /\ cfg' = [cfg EXCEPT !.NoArchive = noArchive]
              /\ IF ~noArchive /\ Len(loc.archiveBundles) > 0
                   THEN \E statOK \in [SeqToSet(loc.archiveBundles) -> BOOLEAN],
                           moveOK \in [SeqToSet(loc.archiveBundles) -> BOOLEAN] :
                          LET files == disk[backupRoot].bundles
                              oc == [b \in SeqToSet(loc.archiveBundles) |->
                                       sizeOutcome(files[b].size, archiveMaxBundleSizeBytes,
                                                   statOK[b], moveOK[b])]
                          IN
                          /\ \A b \in SeqToSet(loc.archiveBundles) :
                               moveOK[b] \/ oc[b] = "move_failed"
                          /\ Fault(Failed(writeOK) + filterFailures(loc.archiveBundles, oc))
                          /\ m' = TouchNow(filterManifest(m, loc.archiveBundles, oc))
                          /\ disk' = Written(
                                        [disk EXCEPT ![backupRoot].bundles =
                                           [n \in TargetNames |->
                                              IF n \in SeqToSet(loc.archiveBundles)
                                                 /\ oc[n] = "oversized"
                                                THEN [files[n] EXCEPT
                                                        !.at = "archive-skipped-size"]
                                                ELSE files[n]]],
                                        m', writeOK)
                          /\ loc' = [loc EXCEPT !.eligibleBundles =
                                                  filterEligible(loc.archiveBundles, oc)]
                          /\ pc' = IF Len(filterEligible(loc.archiveBundles, oc)) = 0
                                     THEN "final" ELSE "ensure"
                   ELSE /\ Fault(Failed(writeOK))
                        /\ m' = markArchiveSkipped(m)
                        /\ WriteTo(m', writeOK)
                        /\ pc' = "final"
                        /\ UNCHANGED loc

\* A faulty variant of EnsureRepo: a failed EnsureRepo does not end the run
\* (C34 must reject it).
EnsureRepo_FailureGoesOn ==
  /\ pc = "ensure"
  /\ UNCHANGED <<planVars, tuiVars>>
  /\ UNCHANGED <<cfg, plan, stdin, backupRoot, clock, remoteDeleted, m0, out, disk>>
  /\ \E repoMgrWired \in BOOLEAN, archiveWired \in BOOLEAN :
       /\ (~repoMgrWired => archiveWired)
       /\ e' = [e EXCEPT !.RepoMgr = repoMgrWired, !.Archive = archiveWired]
       /\ IF ~repoMgrWired \/ ~archiveWired
            THEN /\ Return(ZeroResult, "archive enabled but archive services are nil")
                 /\ UNCHANGED <<m, log, faults>>
            ELSE \E ok \in BOOLEAN :
                   /\ Call("ensure", "", ok)
                   /\ UNCHANGED <<result, err>>
                   /\ IF ok
                        THEN /\ pc' = "publish"
                             /\ UNCHANGED <<m, loc>>
                        ELSE /\ m' = markArchiveFailure(m, "ensure repo failed",
                                                        loc.eligibleBundles)
                             /\ pc' = "publish"
                             /\ UNCHANGED loc

\* Lines 269-276: the archive collaborators, and EnsureRepo.
EnsureRepo ==
  /\ pc = "ensure"
  /\ UNCHANGED <<planVars, tuiVars>>
  /\ UNCHANGED <<cfg, plan, stdin, backupRoot, clock, remoteDeleted, m0, out, disk>>
  /\ \E repoMgrWired \in BOOLEAN, archiveWired \in BOOLEAN :
       /\ (~repoMgrWired => archiveWired)
       /\ e' = [e EXCEPT !.RepoMgr = repoMgrWired, !.Archive = archiveWired]
       /\ IF ~repoMgrWired \/ ~archiveWired
            THEN /\ Return(ZeroResult, "archive enabled but archive services are nil")
                 /\ UNCHANGED <<m, log, faults>>
            ELSE \E ok \in BOOLEAN :
                   /\ Call("ensure", "", ok)
                   /\ UNCHANGED <<result, err>>
                   /\ IF ok
                        THEN /\ pc' = "publish"
                             /\ UNCHANGED <<m, loc>>
                        ELSE /\ m' = markArchiveFailure(m, "ensure repo failed",
                                                        loc.eligibleBundles)
                             /\ pc' = "persist"
                             /\ loc' = [loc EXCEPT !.after = "return", !.fatal = FALSE,
                                                   !.retErr = "ensure repo failed"]

\* The commit id a successful publish returns.
PublishedCommit == "abc123"

\* Lines 277-288: the archive publish.
Publish ==
  /\ pc = "publish"
  /\ UNCHANGED <<planVars, tuiVars>>
  /\ UNCHANGED <<cfg, e, plan, stdin, backupRoot, clock, remoteDeleted, m0, out,
                 disk, err>>
  /\ \E ok \in BOOLEAN :
       /\ Call("publish", "", ok)
       /\ result' = [result EXCEPT !.ArchiveCommit = IF ok THEN PublishedCommit ELSE ""]
       /\ IF ok
            THEN Persist(TouchNow(markArchiveSuccess(m, PublishedCommit,
                                                     loc.eligibleBundles)),
                         "final", FALSE)
            ELSE Persist(TouchNow(markArchiveFailure(m, "publish failed",
                                                     loc.eligibleBundles)),
                         "final", FALSE)

\* Lines 295-311: the final counters, the last write and the Result.
Finish ==
  /\ pc = "final"
  /\ UNCHANGED <<planVars, tuiVars>>
  /\ UNCHANGED <<cfg, e, plan, stdin, backupRoot, clock, log, remoteDeleted, m0, out>>
  /\ m' = RecomputeCounters(m)
  /\ \E writeOK \in BOOLEAN : Fault(Failed(writeOK)) /\ WriteTo(m', writeOK)
  /\ Return([ManifestPath |-> "manifest.json", BackupRoot |-> backupRoot,
             Deleted |-> m'.DeletedCount, Failed |-> m'.FailedCount,
             ArchiveFailed |-> countArchiveFailures(m'),
             ArchiveSkippedSize |-> countArchiveSkippedSize(m'),
             Total |-> Len(m'.RepoExecutions),
             ArchiveCommit |-> result.ArchiveCommit], "")

\* The process is killed: its memory is gone, the files stay.
Kill ==
  /\ pc \notin {"idle", "done"}
  /\ UNCHANGED <<planVars, tuiVars>>
  /\ pc' = "idle"
  /\ cfg' = ZeroCfg
  /\ e' = AllWired
  /\ plan' = NoPlan
  /\ stdin' = <<>>
  /\ backupRoot' = NoDir
  /\ m' = NoManifest
  /\ loc' = ZeroLoc
  /\ result' = ZeroResult
  /\ err' = ""
  /\ log' = <<>>
  /\ m0' = NoManifest
  /\ out' = ZeroOut
  /\ Fault(1)
  /\ UNCHANGED <<disk, clock, remoteDeleted>>

Next ==
  \/ Execute
  \/ RequireConfirmation
  \/ Prepare
  \/ Item
  \/ Mirror
  \/ Snapshot
  \/ Bundle
  \/ Delete
  \/ PersistStep
  \/ Archive
  \/ EnsureRepo
  \/ Publish
  \/ Finish
  \/ Kill

Spec == Init /\ [][Next]_vars

\* A longer chain of invocations: one more Execute than in Spec, each with
\* the explicit backup directory, none killed, and at most MaxChainFaults
\* failures overall.
InitLong ==
  /\ pc = "idle"
  /\ cfg = ZeroCfg
  /\ e = AllWired
  /\ plan = NoPlan
  /\ stdin = <<>>
  /\ backupRoot = NoDir
  /\ m = NoManifest
  /\ loc = ZeroLoc
  /\ result = ZeroResult
  /\ err = ""
  /\ disk = [r \in Roots |-> NoFile]
  /\ clock = 0
  /\ log = <<>>
  /\ remoteDeleted = {}
  /\ m0 = NoManifest
  /\ out = ZeroOut
  /\ faults = 0
  /\ ppc = "none"
  /\ newArgs = NoArgs
  /\ pl = NoPlanFile
  /\ signed = NoPlanFile
  /\ secret = <<>>
  /\ vsecret = <<>>
  /\ verr = ""
  /\ tpc = "none"
  /\ app = ZeroApp
  /\ cmd = NilCmd
  /\ inflight = [command |-> NilCmd, refresh |-> FALSE, update |-> FALSE]
  /\ nkeys = 0

\* cfg.BackupDir is the explicit directory, and the failures stay within
\* their bound.
Narrow ==
  /\ faults' <= MaxChainFaults
  /\ backupRoot' \in {NoDir, ExplicitDir}

NextLong ==
  \/ Execute /\ Narrow
  \/ RequireConfirmation /\ Narrow
  \/ Prepare /\ Narrow
  \/ Item /\ Narrow
  \/ Mirror /\ Narrow
  \/ Snapshot /\ Narrow
  \/ Bundle /\ Narrow
  \/ Delete /\ Narrow
  \/ PersistStep /\ Narrow
  \/ Archive /\ Narrow
  \/ EnsureRepo /\ Narrow
  \/ Publish /\ Narrow
  \/ Finish /\ Narrow

SpecLong == InitLong /\ [][NextLong]_vars

\* The steps of a running Execute. Execute is sequential code whose calls
\* return: a step that can be taken is taken, unless the process is killed.
Step ==
  \/ RequireConfirmation
  \/ Prepare
  \/ Item
  \/ Mirror
  \/ Snapshot
  \/ Bundle
  \/ Delete
  \/ PersistStep
  \/ Archive
  \/ EnsureRepo
  \/ Publish
  \/ Finish

\* One invocation of Execute, with an empty disk, run under that fairness.
InitOne ==
  /\ pc = "idle"
  /\ cfg = ZeroCfg
  /\ e = AllWired
  /\ plan = NoPlan
  /\ stdin = <<>>
  /\ backupRoot = NoDir
  /\ m = NoManifest
  /\ loc = ZeroLoc
  /\ result = ZeroResult
  /\ err = ""
  /\ disk = [r \in Roots |-> NoFile]
  /\ clock = MaxRuns
  /\ log = <<>>
  /\ remoteDeleted = {}
  /\ m0 = NoManifest
  /\ out = ZeroOut
  /\ faults = 0
  /\ ppc = "none"
  /\ newArgs = NoArgs
  /\ pl = NoPlanFile
  /\ signed = NoPlanFile
  /\ secret = <<>>
  /\ vsecret = <<>>
  /\ verr = ""
  /\ tpc = "none"
  /\ app = ZeroApp
  /\ cmd = NilCmd
  /\ inflight = [command |-> NilCmd, refresh |-> FALSE, update |-> FALSE]
  /\ nkeys = 0

SpecOne == InitOne /\ [][Next]_vars /\ WF_vars(Step)

(***************************************************************************)
(* The plan file: New, Sign, an edit of the signed plan, Validate          *)
(***************************************************************************)
\* The plans one edit away from p: each field replaced, the target records
\* reordered, cut, extended or changed in one field.
EditedRepos(rs) ==
  {[k \in 1..Len(rs) |-> rs[Len(rs) + 1 - k]]}
    \cup {SubSeq(rs, 1, Len(rs) - 1)}
    \cup {Append(rs, RepoB1)}
    \cup UNION {{[rs EXCEPT ![k].Owner = "mallory"],
                 [rs EXCEPT ![k].Name = "x"],
                 [rs EXCEPT ![k].FullName = "mallory/x"],
                 [rs EXCEPT ![k].Description = "edited"],
                 [rs EXCEPT ![k].IsPrivate = ~@],
                 [rs EXCEPT ![k].IsFork = ~@],
                 [rs EXCEPT ![k].IsArchived = ~@],
                 [rs EXCEPT ![k].UpdatedAt = "2027-01-01"]} : k \in 1..Len(rs)}

Edits(p) ==
  ({[p EXCEPT !.SchemaVersion = "v2"],
    [p EXCEPT !.CreatedAt = FormatRFC3339([year |-> 2027, zone |-> 0])],
    [p EXCEPT !.CreatedAt = FormatRFC3339([year |-> 2026, zone |-> 120])],
    [p EXCEPT !.CreatedAt = <<>>],
    [p EXCEPT !.Actor = "mallory"],
    [p EXCEPT !.Host = "example.org"],
    [p EXCEPT !.ToolVersion = "0.0.0"],
    [p EXCEPT !.Count = @ + 1],
    [p EXCEPT !.Fingerprint = NoHex],
    [p EXCEPT !.Fingerprint.upper = TRUE],
    [p EXCEPT !.Fingerprint = ComputeFingerprint([p EXCEPT !.Actor = "mallory"])],
    [p EXCEPT !.Signature = NoHex],
    [p EXCEPT !.Signature.upper = TRUE],
    [p EXCEPT !.Signature = EncodeToString(HmacSum(<<2, 2>>, p.Fingerprint))]}
   \cup {[p EXCEPT !.Repos = rs] : rs \in EditedRepos(p.Repos)}) \ {p}

\* planfile.New is called.
PlanCreate ==
  /\ ppc = "none"
  /\ \E repos \in TargetLists, now \in Nows :
       /\ newArgs' = [actor |-> "alice", host |-> "github.com", toolVersion |-> "dev",
                      repos |-> repos, now |-> now]
       /\ pl' = PlanfileNew("alice", "github.com", "dev", repos, now)
  /\ ppc' = "new"
  /\ UNCHANGED <<signed, secret, vsecret, verr>>
  /\ UNCHANGED <<execVars, tuiVars>>

\* Sign is called on the new plan; a failed Sign leaves it as it was.
PlanSign ==
  /\ ppc = "new"
  /\ \E key \in Secrets :
       LET r == Sign(pl, key) IN
       /\ secret' = key
       /\ pl' = r.plan
       /\ IF r.err = ""
            THEN signed' = r.plan /\ ppc' = "signed"
            ELSE UNCHANGED <<signed, ppc>>
  /\ UNCHANGED <<newArgs, vsecret, verr>>
  /\ UNCHANGED <<execVars, tuiVars>>

\* The signed plan is edited, in memory or in its file.
PlanEdit ==
  /\ ppc = "signed"
  /\ pl' \in Edits(pl)
  /\ ppc' = "edited"
  /\ UNCHANGED <<newArgs, signed, secret, vsecret, verr>>
  /\ UNCHANGED <<execVars, tuiVars>>

\* Validate is called.
PlanValidate ==
  /\ ppc \in {"new", "signed", "edited"}
  /\ \E key \in Secrets :
       /\ vsecret' = key
       /\ verr' = Validate(pl, key)
  /\ ppc' = "checked"
  /\ UNCHANGED <<newArgs, pl, signed, secret>>
  /\ UNCHANGED <<execVars, tuiVars>>

NextPlan ==
  \/ PlanCreate
  \/ PlanSign
  \/ PlanEdit
  \/ PlanValidate

SpecPlan == Init /\ [][NextPlan]_vars

(***************************************************************************)
(* The TUI program: RunApp, then one Update per message                    *)
(***************************************************************************)
\* Nothing is in flight.
NoInflight == [command |-> NilCmd, refresh |-> FALSE, update |-> FALSE]

\* The runtime starts the command an Update returned.
Launch(f, c) ==
  IF IsCommand(c) THEN [f EXCEPT !.command = c]
  ELSE IF c = RefreshCmd THEN [f EXCEPT !.refresh = TRUE]
  ELSE IF c = UpdateRunCmd THEN [f EXCEPT !.update = TRUE]
  ELSE f

\* The typed texts stay within the bounds.
WithinBounds(a) ==
  /\ Len(a.deleteInput) <= MaxInput
  /\ Len(a.restoreState.promptInput) <= MaxInput
  /\ Len(a.table.filter) <= MaxFilter
  /\ a.resultScroll <= MaxScroll
  /\ \A k \in 1..Len(a.formFields) : Len(a.formFields[k].value) <= MaxFormText
  /\ Cardinality({k \in 1..Len(a.formFields) : a.formFields[k].value # <<>>}) <= 1

\* What enter can find outside the model in the state a.
EnvFor(a, key) ==
  IF key # "enter" \/ a.busy THEN {NoEnv}
  ELSE IF a.restoreState.active /\ a.restoreState.stage = restoreStageBrowseArchive
    THEN {[NoEnv EXCEPT !.fs = f] : f \in FsOutcomes}
  ELSE IF a.modalActive /\ a.modalKind = modalSettings
    THEN CASE a.settings.stage = settingsStageThemeHome ->
                {[NoEnv EXCEPT !.pick = p] : p \in ThemePicks}
           [] a.settings.stage \in {settingsStageThemeLocalList,
                                    settingsStageThemeRemoteList} ->
                {[NoEnv EXCEPT !.pick = p] : p \in ListPicks}
           [] a.settings.stage = settingsStageUpdateHome ->
                {[NoEnv EXCEPT !.pick = p, !.updateAvailable = u] :
                   p \in UpdatePicks, u \in BOOLEAN}
           [] OTHER -> {NoEnv}
  ELSE {NoEnv}

\* RunApp: the model is built and the program started; Init returns the
\* update check.
RunApp ==
  /\ tpc = "none"
  /\ \E callbacks \in CallbackChoices :
       /\ app' = newAppModel(StartRepos, callbacks)
       /\ cmd' = updateCheckCmd(app')
  /\ tpc' = "running"
  /\ inflight' = NoInflight
  /\ UNCHANGED <<nkeys, execVars, planVars>>

\* A key is pressed.
KeyMsg ==
  /\ tpc = "running"
  /\ nkeys < MaxKeys
  /\ nkeys' = nkeys + 1
  /\ \E key \in Keys : \E env \in EnvFor(app, key) :
       LET r == updateKey(app, key, env) IN
       /\ WithinBounds(r.model)
       /\ app' = r.model
       /\ cmd' = r.cmd
       /\ inflight' = Launch(inflight, r.cmd)
       /\ tpc' = IF r.cmd = QuitCmd THEN "exited" ELSE tpc
  /\ UNCHANGED <<execVars, planVars>>

\* The command in flight ends. Only Restore fails with a TargetExistsError.
CommandResultMsg ==
  /\ tpc = "running"
  /\ inflight.command # NilCmd
  /\ \E outcome \in CommandOutcomes :
       /\ outcome = "target_exists" => inflight.command.run = "Restore"
       /\ LET r == updateCommandResult(app, outcome,
                                       inflight.command.refresh /\ outcome = "ok")
          IN /\ app' = r.model
             /\ cmd' = r.cmd
             /\ inflight' = Launch([inflight EXCEPT !.command = NilCmd], r.cmd)
  /\ UNCHANGED <<tpc, nkeys, execVars, planVars>>

\* The refresh in flight ends.
ReposRefreshedMsg ==
  /\ tpc = "running"
  /\ inflight.refresh
  /\ \E ok \in BOOLEAN : \E repos \in RefreshedRepos :
       LET r == updateReposRefreshed(app, repos, ok) IN
       /\ app' = r.model
       /\ cmd' = r.cmd
  /\ inflight' = [inflight EXCEPT !.refresh = FALSE]
  /\ UNCHANGED <<tpc, nkeys, execVars, planVars>>

\* The self-update in flight ends.
UpdateRunMsg ==
  /\ tpc = "running"
  /\ inflight.update
  /\ \E ok \in BOOLEAN :
       LET r == updateUpdateRun(app, ok) IN
       /\ app' = r.model
       /\ cmd' = r.cmd
  /\ inflight' = [inflight EXCEPT !.update = FALSE]
  /\ UNCHANGED <<tpc, nkeys, execVars, planVars>>

NextTUI ==
  \/ RunApp
  \/ KeyMsg
  \/ CommandResultMsg
  \/ ReposRefreshedMsg
  \/ UpdateRunMsg

SpecTUI == Init /\ [][NextTUI]_vars

(***************************************************************************)
(* Claims about Execute                                                    *)
(***************************************************************************)
\* The collaborator calls of the current run made for a target.
CallsFor(repo) == {k \in 1..Len(log) : log[k].repo = repo}

DeleteCalls == {k \in 1..Len(log) : log[k].op = "delete"}

\* C1: in delete mode DeleteRepo is invoked for a target only when its
\* manifest entry has a non-empty backup path and a non-empty snapshot path,
\* and a target whose mirror or snapshot call failed in a run gets no
\* DeleteRepo call in that run.
C1_DeleteOnlyAfterBackup ==
  /\ pc = "delete" =>
       /\ cfg.Mode = ModeDelete
       /\ Entry.BackupPath # ""
       /\ Entry.BrowsablePath # ""
  /\ \A i \in 1..Len(log), j \in DeleteCalls :
       (log[i].op \in {"mirror", "snapshot"} /\ ~log[i].ok) => log[j].repo # log[i].repo

\* A run in which one target's mirror failed and another target was deleted.
C1_Witness ==
  \E i \in 1..Len(log), j \in DeleteCalls :
    /\ log[i].op = "mirror" /\ ~log[i].ok
    /\ log[j].ok
    /\ pc = "done" /\ err = ""

\* The entries of the loaded manifest that were already deleted.
LoadedDeleted == {k \in 1..Len(m0.RepoExecutions) : m0.RepoExecutions[k].Status = StatusDeleted}

\* What a delete-mode run leaves alone for the entries loaded as deleted.
DeletedLeftAlone ==
  \A k \in LoadedDeleted :
    /\ CallsFor(m0.RepoExecutions[k].FullName) = {}
    /\ m.RepoExecutions[k].Status = StatusDeleted
    /\ m.RepoExecutions[k].Attempts = m0.RepoExecutions[k].Attempts
    /\ m.RepoExecutions[k].LastAttemptAt = m0.RepoExecutions[k].LastAttemptAt

Reported == pc = "done" /\ err = "" /\ ~cfg.DryRun

\* C2 (amended): in a delete-mode run an entry loaded with status deleted
\* gets no collaborator call and keeps its status, attempt count and
\* last-attempt time, and a run that returns a result reports a deleted
\* count no smaller than the one the loaded manifest recorded.
C2_DeletedEntriesLeftAlone ==
  (cfg.Mode = ModeDelete /\ LoadedDeleted # {}) =>
    /\ DeletedLeftAlone
    /\ Reported => result.Deleted >= m0.DeletedCount

\* C2 as stated: the run reports the same deleted count as before.
C2_SameDeletedCount ==
  (cfg.Mode = ModeDelete /\ LoadedDeleted # {}) =>
    /\ DeletedLeftAlone
    /\ Reported => result.Deleted = m0.DeletedCount

\* A resumed run that skipped a deleted entry and worked on another one.
C2_Witness ==
  /\ cfg.Mode = ModeDelete
  /\ LoadedDeleted # {}
  /\ Reported
  /\ log # <<>>

\* C3: after a kill and a resume with the same plan and backup root,
\* DeleteRepo is never invoked for a target that an earlier DeleteRepo call
\* already deleted.
C3_NoRepeatedDelete ==
  (pc = "delete" /\ cfg.Resume) => Entry.FullName \notin remoteDeleted

\* C4: a dry run makes no collaborator call, leaves the backup roots as they
\* were (no directory, no manifest file), and returns the dry-run marker as
\* the manifest path with zero deleted and failed counts.
C4_DryRunNoEffects ==
  [][/\ pc \in {"idle", "done", "confirm"} => (disk' = disk /\ log' = <<>>)
     /\ (pc = "prepare" /\ cfg'.DryRun) =>
          /\ disk' = disk
          /\ log' = <<>>
          /\ pc' = "done"
          /\ err' = ""
          /\ result'.ManifestPath = DryRunMarker
          /\ result'.Deleted = 0
          /\ result'.Failed = 0]_vars

\* A backup-mode dry run of a two-target plan over an existing manifest.
C4_Witness ==
  /\ pc = "done"
  /\ cfg.DryRun
  /\ cfg.Mode = ModeBackup
  /\ Len(plan.Repos) = 2
  /\ disk[backupRoot].file

\* The first line of the input stream, without its newline.
FirstLine(s) ==
  LET nl == {k \in 1..Len(s) : s[k] = "\n"}
  IN IF nl = {} THEN s
     ELSE SubSeq(s, 1, (CHOOSE k \in nl : \A j \in nl : k <= j) - 1)

\* The line is ACCEPT or CONFIRM in any letter case, between white space.
SaysPhrase(line) ==
  \E a \in 0..Len(line), b \in 0..Len(line) :
    /\ a + b <= Len(line)
    /\ \A k \in 1..a : IsSpace(line[k])
    /\ \A k \in (Len(line) - b + 1)..Len(line) : IsSpace(line[k])
    /\ ToUpper(SubSeq(line, a + 1, Len(line) - b)) \in {PhraseAccept, PhraseConfirm}

\* C5: Execute passes the confirmation gate only if the line read says
\* ACCEPT or CONFIRM; for any other input it returns an error, and up to
\* there no collaborator is invoked, no directory created, no manifest
\* written and no simulation line printed.
C5_ConfirmationGate ==
  [][/\ pc \in {"idle", "done"} => (disk' = disk /\ log' = <<>> /\ out'.simLines = 0)
     /\ (pc = "confirm" /\ pc' # "idle") =>
          /\ disk' = disk /\ log' = <<>> /\ out'.simLines = 0
          /\ IF SaysPhrase(FirstLine(stdin))
               THEN pc' = "prepare"
               ELSE pc' = "done" /\ err' # "" /\ result' = ZeroResult]_vars

\* A backup-mode run that was prompted and rejected at the gate.
C5_Witness ==
  /\ pc = "done"
  /\ out.prompted
  /\ err = "confirmation phrase mismatch"
  /\ cfg.Mode = ModeBackup

\* C6: in backup mode DeleteRepo is never invoked and no entry of a
\* backup-mode manifest, in memory or on disk, has status deleted.
C6_BackupNeverDeletes ==
  /\ cfg.Mode = ModeBackup =>
       /\ pc # "delete"
       /\ DeleteCalls = {}
       /\ \A k \in 1..Len(m.RepoExecutions) : m.RepoExecutions[k].Status # StatusDeleted
  /\ \A r \in Roots :
       (disk[r].file /\ disk[r].manifest.Mode = ModeBackup) =>
         \A k \in 1..Len(disk[r].manifest.RepoExecutions) :
           disk[r].manifest.RepoExecutions[k].Status # StatusDeleted

\* A backup-mode run that went through every step and published.
C6_Witness ==
  /\ cfg.Mode = ModeBackup
  /\ Reported
  /\ result.ArchiveCommit # ""
  /\ \E k \in 1..Len(log) : log[k].op = "bundle" /\ ~log[k].ok

\* The manifest file in the root holds a manifest this run must refuse.
Refused(root, resume, mode, fingerprint) ==
  /\ disk[root].file
  /\ \/ ~resume
     \/ disk[root].manifest.PlanFingerprint # fingerprint
     \/ disk[root].manifest.Mode # mode

RefusedClean ==
  /\ pc' = "done"
  /\ err' # ""
  /\ disk' = disk
  /\ log' = <<>>
  /\ m' = NoManifest

\* C7 (amended): a run that is not a dry run and finds a manifest file in
\* its backup root returns an error, without a collaborator call, without
\* processing an entry and without rewriting the file, when resume is false,
\* when the manifest's fingerprint differs from the plan's, or when its mode
\* differs from the requested mode.
C7_ExistingManifestRefused ==
  [][(/\ pc = "prepare" /\ pc' # "idle"
      /\ ~cfg'.DryRun
      /\ Refused(backupRoot', cfg'.Resume, cfg'.Mode, plan'.Fingerprint))
       => RefusedClean]_vars

\* C7 as stated: every Execute, a dry run included.
C7_AnyRunRefused ==
  [][(/\ pc = "prepare" /\ pc' # "idle"
      /\ Refused(backupRoot', cfg'.Resume, cfg'.Mode, plan'.Fingerprint))
       => RefusedClean]_vars

\* A resumed run refused for the mode its manifest records.
C7_Witness ==
  /\ pc = "done"
  /\ err = "manifest mode mismatch"
  /\ cfg.Resume
  /\ disk[backupRoot].manifest.PlanFingerprint = plan.Fingerprint

\* The full names of the entries of a manifest, in order.
EntryNames(mf) == [k \in 1..Len(mf.RepoExecutions) |-> mf.RepoExecutions[k].FullName]

\* Execute is between loading the manifest and returning.
InLoop == pc \in {"item", "mirror", "snapshot", "bundle", "delete", "persist",
                  "archive", "ensure", "publish", "final"}

\* C12: a manifest created for a plan has one entry per target record of the
\* plan, in order and under its full name, with status pending, no attempt
\* and no path, and archive status pending in backup mode and skipped
\* otherwise; a loaded manifest is the one in the file; and no step of any
\* run changes the full names of the entries, in memory or in a manifest
\* file.
C12_OneEntryPerTarget ==
  [][/\ (pc = "prepare" /\ pc' = "item" /\ ~disk[backupRoot'].file) =>
          /\ m'.RepoExecutions =
               [k \in 1..Len(plan'.Repos) |->
                  NewEntry(plan'.Repos[k],
                           IF cfg'.Mode = ModeBackup THEN "pending" ELSE "skipped")]
          /\ disk'[backupRoot'].file
          /\ disk'[backupRoot'].manifest.RepoExecutions = m'.RepoExecutions
     /\ (pc = "prepare" /\ pc' = "item" /\ disk[backupRoot'].file) =>
          m' = disk[backupRoot'].manifest
     /\ (InLoop /\ pc' # "idle") => EntryNames(m') = EntryNames(m)
     /\ \A r \in Roots :
          disk[r].file =>
            /\ disk'[r].file
            /\ EntryNames(disk'[r].manifest) = EntryNames(disk[r].manifest)]_vars

\* A resumed run, given a plan that lacks one of the manifest's targets, has
\* marked that entry and gone through the others.
C12_Witness ==
  /\ pc = "done" /\ err = ""
  /\ cfg.Resume
  /\ Len(m.RepoExecutions) = 2
  /\ EntryNames(m) # plan.Repos
  /\ \E k \in 1..Len(m.RepoExecutions) : m.RepoExecutions[k].Error = "repo missing from plan"
  /\ log # <<>>

\* The counters of the manifest match a recount of its entries.
CountersMatch(mf) ==
  /\ mf.DeletedCount =
       Cardinality({k \in 1..Len(mf.RepoExecutions) :
                      mf.RepoExecutions[k].Status = StatusDeleted})
  /\ mf.FailedCount =
       Cardinality({k \in 1..Len(mf.RepoExecutions) :
                      mf.RepoExecutions[k].Status \in {StatusBackupFailed, StatusDeleteFailed}})
  /\ mf.SkippedFailCount = mf.FailedCount

\* C13: in every manifest file the deleted counter is the number of entries
\* with status deleted and the failed and skipped-fail counters are the
\* number of entries with status backup_failed or delete_failed, whatever
\* the order of the entries and the counters of the manifest in memory.
C13_CountersDerived ==
  \A r \in Roots : disk[r].file => CountersMatch(disk[r].manifest)

\* A manifest file with a failed entry ahead of a deleted one, written from
\* a manifest whose counters in memory were out of date.
C13_Witness ==
  /\ InLoop
  /\ ~CountersMatch(m)
  /\ disk[backupRoot].file
  /\ disk[backupRoot].manifest.RepoExecutions = m.RepoExecutions
  /\ Len(m.RepoExecutions) = 2
  /\ m.RepoExecutions[1].Status = StatusDeleteFailed
  /\ m.RepoExecutions[2].Status = StatusDeleted

\* The DeleteRepo calls a log holds for a target.
DeletesOf(lg, repo) == {k \in 1..Len(lg) : lg[k].op = "delete" /\ lg[k].repo = repo}

\* The entries that went through the delete stage carry its outcome: deleted
\* if a call succeeded, delete_failed otherwise.
DeleteOutcomes ==
  \A k \in 1..Len(m.RepoExecutions) :
    LET entry == m.RepoExecutions[k]
        calls == DeletesOf(log, entry.FullName)
    IN calls # {} =>
         IF \E c \in calls : log[c].ok
           THEN entry.Status = StatusDeleted /\ entry.Error = ""
           ELSE entry.Status = StatusDeleteFailed /\ entry.Error = "delete failed"

\* C14: the retry limit is the configured one, or 3 when that is zero or
\* negative; at the delete stage of an item each step is one DeleteRepo
\* call, the calls for the item number at most the limit, none follows a
\* call that succeeded, the stage ends with the entry deleted after a
\* successful call and delete_failed with the error of the last call after
\* the limit is used up; and the entry keeps that outcome for the rest of the
\* pass.
C14_DeleteRetries ==
  [][/\ \A n \in RetryChoices :
          maxDeleteRetries(n) = IF n >= 1 THEN n ELSE 3
     /\ (pc = "delete" /\ pc' # "idle") =>
          LET calls == DeletesOf(log', Entry.FullName)
              last  == log'[Len(log')]
              after == m'.RepoExecutions[loc.i]
          IN /\ Len(log') = Len(log) + 1
             /\ last.op = "delete" /\ last.repo = Entry.FullName
             /\ Cardinality(calls) >= 1
             /\ Cardinality(calls) <= cfg.MaxDeleteRetries
             /\ \A c \in calls \ {Len(log')} : ~log'[c].ok
             /\ IF last.ok
                  THEN /\ pc' = "persist"
                       /\ after.Status = StatusDeleted /\ after.Error = ""
                  ELSE IF Cardinality(calls) = cfg.MaxDeleteRetries
                    THEN /\ pc' = "persist"
                         /\ after.Status = StatusDeleteFailed
                         /\ after.Error = "delete failed"
                    ELSE pc' = "delete" /\ m' = m
     /\ (pc' \in {"item", "archive", "final"} \/ (pc' = "done" /\ err' = ""))
          => DeleteOutcomes']_vars

\* A finished run with a limit of two in which both DeleteRepo calls for a
\* target failed.
C14_Witness ==
  /\ pc = "done" /\ err = ""
  /\ cfg.MaxDeleteRetries = 2
  /\ \E k \in 1..Len(m.RepoExecutions) :
       /\ Cardinality(DeletesOf(log, m.RepoExecutions[k].FullName)) = 2
       /\ m.RepoExecutions[k].Status = StatusDeleteFailed
  /\ result.Failed = 1

\* The mirror and snapshot calls the current run made for a target.
BackupStageCalls(repo) ==
  {c \in 1..Len(log) : log[c].repo = repo /\ log[c].op \in {"mirror", "snapshot"}}

\* A delete-mode pass is past an item's stages, or has returned its result.
BetweenItems == pc \in {"item", "archive", "final"} \/ (pc = "done" /\ err = "")

\* The entries of the pass for which a DeleteRepo call succeeded.
DeletedInPass ==
  {k \in 1..Len(m.RepoExecutions) :
     \E c \in DeletesOf(log, m.RepoExecutions[k].FullName) : log[c].ok}

\* C15 (amended): in a delete-mode pass an item whose delete succeeds, at
\* the first call or after failed ones, ends with status deleted, and its
\* attempt count has grown by one for the delete stage, however many
\* DeleteRepo calls were made, and by one for each mirror and snapshot call
\* the pass made for it.
C15_OneAttemptForDeleteStage ==
  (cfg.Mode = ModeDelete /\ BetweenItems) =>
    \A k \in DeletedInPass :
      /\ m.RepoExecutions[k].Status = StatusDeleted
      /\ m.RepoExecutions[k].Attempts =
           m0.RepoExecutions[k].Attempts + 1
             + Cardinality(BackupStageCalls(m.RepoExecutions[k].FullName))

\* The entries whose delete failed at least once and then succeeded.
RetriedInPass ==
  {k \in DeletedInPass :
     \E c \in DeletesOf(log, m.RepoExecutions[k].FullName) : ~log[c].ok}

\* C15 as stated: after a delete that failed and then succeeded the attempt
\* count at the end of the pass is one more than at its start.
C15_OneAttemptForPass ==
  (cfg.Mode = ModeDelete /\ BetweenItems) =>
    \A k \in RetriedInPass :
      /\ m.RepoExecutions[k].Status = StatusDeleted
      /\ m.RepoExecutions[k].Attempts = m0.RepoExecutions[k].Attempts + 1

\* A resumed pass, with the backup and the snapshot on record, whose first
\* DeleteRepo call for a target failed and whose second succeeded.
C15_Witness ==
  /\ cfg.Mode = ModeDelete
  /\ pc = "done" /\ err = ""
  /\ \E k \in DeletedInPass :
       /\ Cardinality(DeletesOf(log, m.RepoExecutions[k].FullName)) = 2
       /\ BackupStageCalls(m.RepoExecutions[k].FullName) = {}
       /\ m0.RepoExecutions[k].Attempts >= 2
       /\ m.RepoExecutions[k].Attempts = m0.RepoExecutions[k].Attempts + 1

\* The calls of the current run, for a target, that failed at a backup stage.
FailedBackupCalls(repo) ==
  {c \in 1..Len(log) :
     log[c].repo = repo /\ log[c].op \in {"mirror", "snapshot", "bundle"} /\ ~log[c].ok}

\* The delete stage of the target is over and none of its calls succeeded.
DeleteGaveUp(repo) ==
  /\ DeletesOf(log, repo) # {}
  /\ \A c \in DeletesOf(log, repo) : ~log[c].ok
  /\ ~(pc = "delete" /\ Entry.FullName = repo)

\* The entries with a failure of their own in the current run.
FailedInRun ==
  {k \in 1..Len(m.RepoExecutions) :
     \/ FailedBackupCalls(m.RepoExecutions[k].FullName) # {}
     \/ DeleteGaveUp(m.RepoExecutions[k].FullName)}

\* Each failure is on its entry.
FailuresRecorded ==
  \A k \in FailedInRun :
    LET entry == m.RepoExecutions[k] IN
    /\ entry.Error # ""
    /\ entry.Status =
         IF FailedBackupCalls(entry.FullName) # {} THEN StatusBackupFailed
                                                   ELSE StatusDeleteFailed

\* Every entry of the manifest was skipped as done, found missing from the
\* plan, or taken to a collaborator.
AllProcessed ==
  \A k \in 1..Len(m.RepoExecutions) :
    \/ shouldSkipEntry(cfg.Mode, m0.RepoExecutions[k])
    \/ m.RepoExecutions[k].FullName \notin SeqToSet(plan.Repos)
    \/ CallsFor(m.RepoExecutions[k].FullName) # {}

\* The errors Execute returns once the loop over the entries has begun.
LoopErrors ==
  {"manifest write failed", "ensure repo failed",
   "archive enabled but archive services are nil"}

FailedArchiveCalls == {c \in 1..Len(log) : log[c].op \in {"ensure", "publish"} /\ ~log[c].ok}

ArchiveErrors == {"ensure repo failed", "publish failed"}

\* The entries marked archive_failed with the error of EnsureRepo or of the
\* publish.
MarkedArchiveFailed(mf) ==
  {k \in 1..Len(mf.RepoExecutions) :
     /\ mf.RepoExecutions[k].ArchiveStatus = "archive_failed"
     /\ mf.RepoExecutions[k].Error \in ArchiveErrors}

\* C17: in backup mode, when EnsureRepo fails or the publish fails, every
\* eligible entry is marked archive_failed with the error text, and Execute
\* returns a nil error and a result whose archive-failed count is the number
\* of eligible entries.
C17_ArchiveFailureInResult ==
  [][/\ (pc \in {"ensure", "publish"} /\ FailedArchiveCalls' # {}) =>
          /\ Len(loc.eligibleBundles) > 0
          /\ \A k \in 1..Len(m'.RepoExecutions) :
               m'.RepoExecutions[k].FullName \in SeqToSet(loc.eligibleBundles)
                 <=> k \in MarkedArchiveFailed(m')
     /\ (pc' = "done" /\ FailedArchiveCalls' # {}) =>
          /\ err' = ""
          /\ result'.ArchiveFailed = Cardinality(MarkedArchiveFailed(m'))]_vars

\* The errors of a configuration Execute rejects, of a rejected
\* confirmation, and of a manifest that does not match on resume.
HardErrors ==
  {"unsupported mode", "executor backup service is nil", "executor GH client is nil",
   "archive enabled but archive services are nil",
   "confirmation phrase mismatch",
   "manifest plan fingerprint mismatch", "manifest mode mismatch"}

\* C18: Execute returns an error only for a configuration error, a rejected
\* confirmation, or a fingerprint or mode mismatch of the manifest on
\* resume; after any other failure (of a collaborator, of a manifest write,
\* of the archive step) the returned error is nil.
C18_OnlyHardErrors ==
  (pc = "done" /\ err # "") => err \in HardErrors

\* Execute was invoked with a configuration to reject: a mode that is neither
\* delete nor backup, or backup mode without the backup provider, the
\* archive repository manager or the archive publisher.
BadConfig ==
  /\ pc # "idle"
  /\ \/ cfg.Mode \notin {ModeDelete, ModeBackup}
     \/ cfg.Mode = ModeBackup /\ (~e.Backup \/ ~e.RepoMgr \/ ~e.Archive)

\* C19: with such a configuration Execute returns an error before it
\* prompts for the confirmation, calls a collaborator, or creates or loads a
\* manifest.
C19_BadConfigRejectedFirst ==
  BadConfig =>
    /\ pc = "done"
    /\ err # ""
    /\ ~out.prompted
    /\ log = <<>>
    /\ m = NoManifest

\* The Archive step runs the size filter.
FilterRuns ==
  /\ pc = "archive" /\ pc' # "idle"
  /\ cfg.Mode = ModeBackup
  /\ ~cfg'.NoArchive
  /\ Len(loc.archiveBundles) > 0

EntryOf(mf, name) ==
  mf.RepoExecutions[CHOOSE k \in 1..Len(mf.RepoExecutions) :
                      mf.RepoExecutions[k].FullName = name]

\* The filter passes the bundle: eligible, the file where it was, the entry
\* as it was.
Passed(b) ==
  /\ b \in SeqToSet(loc'.eligibleBundles)
  /\ disk'[backupRoot].bundles[b] = disk[backupRoot].bundles[b]
  /\ EntryOf(m', b) = EntryOf(m, b)

\* The filter sets the bundle aside: not eligible, the file in the size-skip
\* folder of the backup root, the entry with the new path and the status
\* archive_skipped_size_limit.
SetAside(b) ==
  /\ b \notin SeqToSet(loc'.eligibleBundles)
  /\ disk'[backupRoot].bundles[b] =
       [disk[backupRoot].bundles[b] EXCEPT !.at = "archive-skipped-size"]
  /\ EntryOf(m', b).BundlePath = "archive-skipped-size/bundle"
  /\ EntryOf(m', b).ArchiveStatus = "archive_skipped_size_limit"

\* The stat or the move of the bundle failed: not eligible, the file where it
\* was, the entry archive_failed with its path as it was.
FilterFailed(b, errors) ==
  /\ faults' > faults
  /\ b \notin SeqToSet(loc'.eligibleBundles)
  /\ disk'[backupRoot].bundles[b] = disk[backupRoot].bundles[b]
  /\ EntryOf(m', b) = [EntryOf(m, b) EXCEPT !.ArchiveStatus = "archive_failed",
                                            !.Error = EntryOf(m', b).Error]
  /\ EntryOf(m', b).Error \in errors

\* C20 (amended): the size filter passes a bundle of at most the limit,
\* leaving file and entry alone, and sets a larger one aside, moving the
\* file to the size-skip folder and putting the new path and the status
\* archive_skipped_size_limit on the entry, unless the stat of the file
\* fails or, for a larger one, the move fails: then the bundle is not
\* eligible, the file stays and the entry becomes archive_failed.
C20_SizeFilter ==
  [][FilterRuns =>
       \A b \in SeqToSet(loc.archiveBundles) :
         IF disk[backupRoot].bundles[b].size <= archiveMaxBundleSizeBytes
           THEN Passed(b) \/ FilterFailed(b, {"bundle stat failed"})
           ELSE SetAside(b)
                  \/ FilterFailed(b, {"bundle stat failed",
                                      "failed moving oversized bundle"})]_vars

\* C20 as stated: every bundle of at most the limit is passed and every
\* larger one set aside.
C20_SizeFilterNeverFails ==
  [][FilterRuns =>
       \A b \in SeqToSet(loc.archiveBundles) :
         IF disk[backupRoot].bundles[b].size <= archiveMaxBundleSizeBytes
           THEN Passed(b)
           ELSE SetAside(b)]_vars

\* The filter has passed a bundle of exactly the limit and set aside one a
\* byte larger.
C20_Witness ==
  /\ pc = "ensure"
  /\ loc.archiveBundles = <<"alice/r1", "alice/r2">>
  /\ loc.eligibleBundles = <<"alice/r1">>
  /\ disk[backupRoot].bundles["alice/r1"] =
       [at |-> "bundles", size |-> archiveMaxBundleSizeBytes]
  /\ disk[backupRoot].bundles["alice/r2"] =
       [at |-> "archive-skipped-size", size |-> archiveMaxBundleSizeBytes + 1]
  /\ EntryOf(m, "alice/r1").ArchiveStatus = "pending"
  /\ EntryOf(m, "alice/r2").ArchiveStatus = "archive_skipped_size_limit"

\* The step is a publish call that succeeded.
PublishSucceeds ==
  /\ pc = "publish" /\ pc' # "idle"
  /\ log'[Len(log')].op = "publish" /\ log'[Len(log')].ok

\* C21: a successful publish gives the entries of the eligible bundles, and
\* no others, the archive status archived and the returned commit id, which
\* is also the one the result reports; every other entry stays as it is, and
\* an entry that is not archived (size-skipped, failed in the size filter,
\* failed in its backup) carries no commit id.
C21_PublishMarksEligible ==
  [][/\ PublishSucceeds =>
          /\ result'.ArchiveCommit = PublishedCommit
          /\ \A k \in 1..Len(m.RepoExecutions) :
               LET before == m.RepoExecutions[k]
                   after  == m'.RepoExecutions[k]
               IN IF before.FullName \in SeqToSet(loc.eligibleBundles)
                    THEN after = [before EXCEPT !.ArchiveStatus = "archived",
                                                !.ArchiveCommit = PublishedCommit]
                    ELSE after = before
     /\ \A k \in 1..Len(m'.RepoExecutions) :
          m'.RepoExecutions[k].ArchiveStatus # "archived"
            => m'.RepoExecutions[k].ArchiveCommit = ""]_vars

\* A finished run whose publish succeeded for one bundle while the other
\* was set aside for its size.
C21_Witness ==
  /\ pc = "done" /\ err = ""
  /\ result.ArchiveCommit = PublishedCommit
  /\ result.ArchiveSkippedSize = 1
  /\ \E j, k \in 1..Len(m.RepoExecutions) :
       /\ m.RepoExecutions[j].ArchiveStatus = "archived"
       /\ m.RepoExecutions[j].ArchiveCommit = PublishedCommit
       /\ m.RepoExecutions[k].ArchiveStatus = "archive_skipped_size_limit"
       /\ m.RepoExecutions[k].ArchiveCommit = ""

\* The step makes a collaborator call.
CallMade == Len(log') = Len(log) + 1

\* C22: whenever a collaborator is called, the manifest file of the backup
\* root holds the entries as the manifest in memory has them: every change
\* a step made to an entry has been written before the next call.
C22_WrittenBeforeNextCall ==
  [][CallMade =>
       /\ disk[backupRoot].file
       /\ disk[backupRoot].manifest.RepoExecutions = m.RepoExecutions]_vars

\* An entry whose bundle exists and is not yet archived.
IsUnarchivedBundle(r) ==
  /\ r.Status = StatusBackupOK
  /\ r.BundlePath # ""
  /\ r.ArchiveStatus \in {"pending", "archive_failed"}

\* A backup-mode invocation with archiving enabled has returned a result.
ArchivingRunReported == Reported /\ cfg.Mode = ModeBackup /\ ~cfg.NoArchive

\* C23: when a backup-mode invocation with archiving enabled returns without
\* error, every entry that was loaded with a bundle not yet archived has
\* been through the archive step: the publisher was called or the size filter
\* changed the entry, and it is not marked `skipped`.
C23_UnarchivedBundlesPublished ==
  ArchivingRunReported =>
    \A k \in 1..Len(m0.RepoExecutions) :
      IsUnarchivedBundle(m0.RepoExecutions[k]) =>
        /\ m.RepoExecutions[k].ArchiveStatus # "skipped"
        /\ \/ \E c \in 1..Len(log) : log[c].op = "publish"
           \/ /\ m.RepoExecutions[k] # m0.RepoExecutions[k]
              /\ m.RepoExecutions[k].ArchiveStatus
                   \in {"archive_failed", "archive_skipped_size_limit"}

\* A backup-mode invocation has returned a result after taking the branch of
\* lines 289-292: archiving is disabled or no bundle was queued in this pass.
ArchiveStepSkipped ==
  /\ Reported /\ cfg.Mode = ModeBackup
  /\ \/ cfg.NoArchive
     \/ ~\E c \in 1..Len(log) : log[c].op = "bundle" /\ log[c].ok

HasBundle(r) == r.Status = StatusBackupOK /\ r.BundlePath # ""

FailedBackupInPass ==
  {k \in 1..Len(m.RepoExecutions) : FailedBackupCalls(m.RepoExecutions[k].FullName) # {}}

\* C25: in a backup-mode run an item whose mirror, snapshot or bundle call
\* failed in this pass has status backup_failed from then on, is in neither
\* the bundle list handed to the size filter nor the one handed to the
\* publisher, and does not get archive status `archived`.
C25_FailedItemNotArchived ==
  cfg.Mode = ModeBackup =>
    \A k \in FailedBackupInPass :
      LET entry == m.RepoExecutions[k] IN
      /\ entry.Status = StatusBackupFailed
      /\ entry.FullName \notin SeqToSet(loc.archiveBundles)
      /\ entry.FullName \notin SeqToSet(loc.eligibleBundles)
      /\ entry.ArchiveStatus # "archived"

C25_Witness ==
  /\ Reported /\ cfg.Mode = ModeBackup
  /\ \E c \in 1..Len(log) : log[c].op = "publish" /\ log[c].ok
  /\ \E j \in FailedBackupInPass, k \in 1..Len(m.RepoExecutions) :
       /\ \E c \in FailedBackupCalls(m.RepoExecutions[j].FullName) : log[c].op = "bundle"
       /\ m.RepoExecutions[j].ArchiveStatus = "pending"
       /\ m.RepoExecutions[k].ArchiveStatus = "archived"

\* The manifest file of the backup root of the invocation.
Persisted == disk[backupRoot].manifest

\* C26: the result of a non-dry-run Execute that returns without error
\* agrees with the manifest file as the run leaves it: total is the number
\* of its entries, deleted the number of deleted ones, failed the number of
\* backup_failed or delete_failed ones, archive-failed and
\* archive-size-skipped the numbers with these archive statuses.
C26_ResultAgreesWithFile ==
  Reported =>
    /\ disk[backupRoot].file
    /\ result.Total = Len(Persisted.RepoExecutions)
    /\ result.Deleted = CountEntries(Persisted, IsDeleted)
    /\ result.Failed = CountEntries(Persisted, IsFailed)
    /\ result.ArchiveFailed = CountEntries(Persisted, IsArchiveFailed)
    /\ result.ArchiveSkippedSize = CountEntries(Persisted, IsArchiveSkippedSize)

\* The step is the archive publish, and PublishBundles returns an error.
PublishFails ==
  /\ pc = "publish" /\ pc' # "idle"
  /\ log'[Len(log')].op = "publish" /\ ~log'[Len(log')].ok

\* The manifest had the publish succeeded.
HadPublishSucceeded == markArchiveSuccess(m, PublishedCommit, loc.eligibleBundles)

\* C27: a failed archive publish changes, of the entries, only the archive
\* status and the error text of the eligible ones; the deleted and failed
\* counts of the manifest, from which the result takes them, are those of
\* a successful publish, and the result of the run reports them.
C27_FailedPublishFrame ==
  [][/\ PublishFails =>
          /\ \A k \in 1..Len(m.RepoExecutions) :
               LET before == m.RepoExecutions[k]
                   after  == m'.RepoExecutions[k]
               IN IF before.FullName \in SeqToSet(loc.eligibleBundles)
                    THEN after = [before EXCEPT !.ArchiveStatus = after.ArchiveStatus,
                                                !.Error = after.Error]
                    ELSE after = before
          /\ Len(m'.RepoExecutions) = Len(m.RepoExecutions)
          /\ CountEntries(m', IsDeleted) = CountEntries(HadPublishSucceeded, IsDeleted)
          /\ CountEntries(m', IsFailed) = CountEntries(HadPublishSucceeded, IsFailed)
     /\ (pc = "final" /\ pc' = "done") =>
          /\ result'.Deleted = CountEntries(m, IsDeleted)
          /\ result'.Failed = CountEntries(m, IsFailed)
          /\ m'.RepoExecutions = m.RepoExecutions]_vars

C27_Witness ==
  /\ Reported
  /\ \E c \in 1..Len(log) : log[c].op = "publish" /\ ~log[c].ok
  /\ result.ArchiveFailed = 1 /\ result.Failed = 1
  /\ \E j, k \in 1..Len(m.RepoExecutions) :
       /\ m.RepoExecutions[j].Status = StatusBackupOK
       /\ m.RepoExecutions[j].ArchiveStatus = "archive_failed"
       /\ m.RepoExecutions[j].Error = "publish failed"
       /\ m.RepoExecutions[k].Status = StatusBackupFailed

\* A home-directory root holds the manifest of a completed backup-mode run of
\* the plan: every target is backed up and bundled, and the archive step
\* is over.
CompletedBackupOf(p) ==
  \E r \in HomeRoots :
    /\ disk[r].dir /\ disk[r].file
    /\ disk[r].manifest.Mode = ModeBackup
    /\ disk[r].manifest.PlanFingerprint = p.Fingerprint
    /\ Len(disk[r].manifest.RepoExecutions) = Len(p.Repos)
    /\ \A k \in 1..Len(p.Repos) :
         /\ disk[r].manifest.RepoExecutions[k].FullName = p.Repos[k]
         /\ HasBundle(disk[r].manifest.RepoExecutions[k])
         /\ disk[r].manifest.RepoExecutions[k].ArchiveStatus # "pending"

\* C28: a delete-mode Execute with resume enabled and no explicit backup
\* directory, run after a completed backup-mode Execute of the same plan in
\* a home-directory root, does not abort with a manifest mode mismatch.
C28_DeleteAfterBackupResumes ==
  (/\ pc = "done" /\ cfg.Mode = ModeDelete /\ ~cfg.DryRun
   /\ cfg.Resume /\ cfg.BackupDir = NoDir
   /\ plan # NoPlan /\ CompletedBackupOf(plan))
    => err # "manifest mode mismatch"

\* The entries the current run loaded as a completed backup: status
\* backup_ok and a bundle path.
LoadedBundled == {k \in 1..Len(m0.RepoExecutions) : HasBundle(m0.RepoExecutions[k])}

PipelineCalls(repo) ==
  {c \in 1..Len(log) : log[c].repo = repo /\ log[c].op \in {"mirror", "snapshot", "bundle"}}

\* C31: in a backup-mode run an entry loaded with status backup_ok and a
\* non-empty bundle path gets no mirror, snapshot or bundle call, and its
\* status, its backup, snapshot and bundle paths and its attempt count stay
\* as loaded, through the loop over the entries and the rest of the run.
C31_BundledEntrySkipped ==
  cfg.Mode = ModeBackup =>
    \A k \in LoadedBundled :
      LET before == m0.RepoExecutions[k]
          now == m.RepoExecutions[k]
      IN /\ PipelineCalls(before.FullName) = {}
         /\ now.Status = before.Status
         /\ now.BackupPath = before.BackupPath
         /\ now.BrowsablePath = before.BrowsablePath
         /\ now.BundlePath = before.BundlePath
         /\ now.Attempts = before.Attempts

\* A resumed backup run that skipped a bundled entry, took another target
\* through mirror, snapshot and bundle, and returned its result.
C31_Witness ==
  /\ cfg.Mode = ModeBackup
  /\ Reported
  /\ LoadedBundled # {}
  /\ \E c \in 1..Len(log) : log[c].op = "bundle" /\ log[c].ok

\* The loop is at an entry that is not skipped and whose target is not in
\* the plan, and the process is not killed there.
MissingFromPlan ==
  /\ pc = "item" /\ pc' # "idle"
  /\ loc.i <= Len(m.RepoExecutions)
  /\ ~shouldSkipEntry(cfg.Mode, Entry)
  /\ Entry.FullName \notin SeqToSet(plan.Repos)

\* C32: for an entry that is not skipped and whose full name is not among
\* the plan's targets, Execute makes no collaborator call (the run never
\* makes one for a name outside the plan), marks the entry delete_failed
\* with a non-empty error and one more attempt, leaves the other entries
\* alone, calls manifest.Write with that manifest (the file holds it if the
\* write succeeds and is as before if it fails) and goes on to the next
\* entry.
C32_MissingFromPlan ==
  [][/\ \A c \in 1..Len(log') : log'[c].repo \in SeqToSet(plan'.Repos) \cup {""}
     /\ MissingFromPlan =>
          /\ log' = log
          /\ m'.RepoExecutions[loc.i] =
               [Entry EXCEPT !.Status = StatusDeleteFailed,
                             !.Error = m'.RepoExecutions[loc.i].Error,
                             !.Attempts = @ + 1,
                             !.LastAttemptAt = clock]
          /\ m'.RepoExecutions[loc.i].Error # ""
          /\ \A k \in 1..Len(m.RepoExecutions) :
               k # loc.i => m'.RepoExecutions[k] = m.RepoExecutions[k]
          /\ \/ disk'[backupRoot].manifest = WriteContent(m')
             \/ disk' = disk /\ faults' = faults + 1
          /\ pc' = "item"
          /\ loc'.i = loc.i + 1]_vars

\* A run with a plan that lacks the first target of the manifest: the entry
\* is delete_failed in memory and in the file, and the run went on to the
\* next entry, made calls for it and returned its result.
C32_Witness ==
  /\ Reported
  /\ log # <<>>
  /\ \E k \in 1..Len(m.RepoExecutions) :
       /\ m.RepoExecutions[k].FullName \notin SeqToSet(plan.Repos)
       /\ m.RepoExecutions[k].Status = StatusDeleteFailed
       /\ m.RepoExecutions[k].Error = "repo missing from plan"
       /\ Persisted.RepoExecutions[k] = m.RepoExecutions[k]

\* The bundles the size filter has just marked archive_failed.
FailedByFilter ==
  {b \in SeqToSet(loc.archiveBundles) : EntryOf(m', b).ArchiveStatus = "archive_failed"}

FilterErrors == {"bundle stat failed", "failed moving oversized bundle"}

\* C33: a bundle whose stat fails, or whose move to the size-skip folder
\* fails, gets archive_failed and an error text on its entry and is in
\* neither the eligible list nor the size-skipped list; every other bundle
\* is still evaluated (passed, or set aside for its size); and Execute goes
\* on to the archive repository with the bundles that passed, if there are
\* any.
C33_FilterFailureSetsAside ==
  [][FilterRuns =>
       /\ \A oc \in [SeqToSet(loc.archiveBundles) -> SizeOutcomes] :
            \A b \in SeqToSet(loc.archiveBundles) :
              oc[b] \in {"stat_failed", "move_failed"} =>
                /\ filterEntry(EntryOf(m, b), oc[b]).ArchiveStatus = "archive_failed"
                /\ filterEntry(EntryOf(m, b), oc[b]).Error \in FilterErrors
                /\ b \notin SeqToSet(filterEligible(loc.archiveBundles, oc))
                /\ b \notin SeqToSet(filterSkipped(loc.archiveBundles, oc))
       /\ \A b \in FailedByFilter : FilterFailed(b, FilterErrors)
       /\ \A b \in SeqToSet(loc.archiveBundles) \ FailedByFilter :
            Passed(b) \/ SetAside(b)
       /\ SeqToSet(loc'.eligibleBundles) =
            {b \in SeqToSet(loc.archiveBundles) \ FailedByFilter :
               disk[backupRoot].bundles[b].size <= archiveMaxBundleSizeBytes}
       /\ pc' = IF loc'.eligibleBundles = <<>> THEN "final" ELSE "ensure"]_vars

\* A backup run in which the stat of one bundle failed and the other bundle
\* was published: the first entry is archive_failed, the second archived.
C33_Witness ==
  /\ Reported
  /\ \E c \in 1..Len(log) : log[c].op = "publish" /\ log[c].ok
  /\ \E j, k \in 1..Len(m.RepoExecutions) :
       /\ m.RepoExecutions[j].ArchiveStatus = "archive_failed"
       /\ m.RepoExecutions[j].Error = "bundle stat failed"
       /\ m.RepoExecutions[k].ArchiveStatus = "archived"

PublishCalls(lg) == {c \in 1..Len(lg) : lg[c].op = "publish"}

\* C34: in a backup-mode run PublishBundles is called at most once; when it
\* is called the loop over the entries is over (and no mirror, snapshot or
\* bundle call follows it), the call before it is an EnsureRepo call that
\* returned nil, the eligible list is not empty and archiving is not
\* disabled; a run with archiving disabled never calls it.
C34_PublishOnceAfterEnsure ==
  [][cfg'.Mode = ModeBackup =>
       /\ Cardinality(PublishCalls(log')) <= 1
       /\ cfg'.NoArchive => PublishCalls(log') = {}
       /\ \A c \in PublishCalls(log') :
            /\ c > 1
            /\ log'[c - 1].op = "ensure" /\ log'[c - 1].ok
            /\ \A d \in 1..Len(log') :
                 log'[d].op \in {"mirror", "snapshot", "bundle"} => d < c
       /\ PublishCalls(log') \ PublishCalls(log) # {} =>
            /\ pc = "publish"
            /\ loc.i > Len(m.RepoExecutions)
            /\ loc.eligibleBundles # <<>>
            /\ ~cfg.NoArchive]_vars

\* A backup run that took two targets through the stages, called EnsureRepo
\* and PublishBundles once each and returned its result.
C34_Witness ==
  /\ cfg.Mode = ModeBackup
  /\ Reported
  /\ Cardinality(PublishCalls(log)) = 1
  /\ Cardinality({c \in 1..Len(log) : log[c].op = "bundle" /\ log[c].ok}) = 2

\* The call that has just returned nil.
LastCallOK(lg, op, repo) ==
  /\ Len(lg) > 0
  /\ lg[Len(lg)] = [op |-> op, repo |-> repo, ok |-> TRUE]

\* One step of an entry's status, from s to t, for the calls lg made so far.
StatusFollows(s, t, repo, lg) ==
  /\ t = StatusPending => s = StatusPending
  /\ (t = StatusBackupOK /\ s # StatusBackupOK) => LastCallOK(lg, "mirror", repo)
  /\ (t = StatusDeleted /\ s # StatusDeleted) =>
       /\ s \in {StatusBackupOK, StatusDeleteFailed}
       /\ LastCallOK(lg, "delete", repo)
  /\ s = StatusDeleted => t = StatusDeleted

\* The statuses of a manifest follow the state machine from mf to mg.
ManifestFollows(mf, mg, lg) ==
  Len(mf.RepoExecutions) = Len(mg.RepoExecutions) =>
    \A k \in 1..Len(mf.RepoExecutions) :
      StatusFollows(mf.RepoExecutions[k].Status, mg.RepoExecutions[k].Status,
                    mf.RepoExecutions[k].FullName, lg)

\* C35: over all steps of all runs the status of each entry, in the manifest
\* in memory and in every manifest file, never goes back to pending, becomes
\* backup_ok only when the last call is a MirrorBackup of its target that
\* returned nil (in memory: at that very call), becomes deleted only from
\* backup_ok or delete_failed when the last call is a DeleteRepo of its
\* target that returned nil, and never leaves deleted; a run that resumes
\* starts from the statuses of the file.
C35_StatusStateMachine ==
  [][/\ ManifestFollows(m, m', log')
     /\ \A k \in 1..Len(m.RepoExecutions) :
          (Len(m'.RepoExecutions) = Len(m.RepoExecutions)
             /\ m'.RepoExecutions[k].Status # m.RepoExecutions[k].Status
             /\ m'.RepoExecutions[k].Status \in {StatusBackupOK, StatusDeleted})
            => CallMade
     /\ \A r \in Roots :
          disk[r].file => disk'[r].file /\ ManifestFollows(disk[r].manifest,
                                                           disk'[r].manifest, log')
     /\ (pc = "prepare" /\ pc' = "item" /\ disk[backupRoot'].file) =>
          m' = disk[backupRoot'].manifest]_vars

\* A resumed delete run whose manifest held a deleted entry and a
\* delete_failed one: the first is still deleted, the second went from
\* delete_failed to deleted, in memory and in the file.
C35_Witness ==
  /\ cfg.Mode = ModeDelete
  /\ Reported
  /\ \E j, k \in 1..Len(m0.RepoExecutions) :
       /\ m0.RepoExecutions[j].Status = StatusDeleted
       /\ m0.RepoExecutions[k].Status = StatusDeleteFailed
       /\ m.RepoExecutions[j].Status = StatusDeleted
       /\ m.RepoExecutions[k].Status = StatusDeleted
       /\ Persisted.RepoExecutions[k].Status = StatusDeleted

\* The entries of a manifest that are backup_failed or delete_failed without
\* an error text.
FailedWithoutError(mf) ==
  {k \in 1..Len(mf.RepoExecutions) :
     IsFailed(mf.RepoExecutions[k]) /\ mf.RepoExecutions[k].Error = ""}

\* A mirror, snapshot, bundle or delete call has just returned nil.
StageSucceeds ==
  /\ CallMade
  /\ log'[Len(log')].ok
  /\ log'[Len(log')].op \in {"mirror", "snapshot", "bundle", "delete"}

\* C36: in every manifest file an entry with status backup_failed or
\* delete_failed has a non-empty error text, and a mirror, snapshot, bundle
\* or delete call that returns nil leaves the entry's error text empty.
C36_FailedEntryHasError ==
  [][/\ \A r \in Roots : FailedWithoutError(disk'[r].manifest) = {}
     /\ StageSucceeds => m'.RepoExecutions[loc.i].Error = ""]_vars

\* C36, its second half alone: a stage that succeeds clears the error text.
C36_SuccessClearsError ==
  [][StageSucceeds => m'.RepoExecutions[loc.i].Error = ""]_vars

\* A backup run has returned its result and its manifest file holds a
\* delete_failed entry with a bundle path and no error text.
C36_FailedWithoutErrorLeft ==
  /\ cfg.Mode = ModeBackup
  /\ Reported
  /\ \E k \in FailedWithoutError(Persisted) :
       /\ Persisted.RepoExecutions[k].Status = StatusDeleteFailed
       /\ Persisted.RepoExecutions[k].BundlePath # ""

\* The manifest write that follows a successful mirror or snapshot fails.
BackupWriteFails ==
  /\ pc = "persist" /\ pc' # "idle"
  /\ Len(log) > 0
  /\ log[Len(log)].ok /\ log[Len(log)].op \in {"mirror", "snapshot"}
  /\ faults' = faults + 1
  /\ disk' = disk

\* C37: whenever DeleteRepo is about to be called for a target, the manifest
\* file holds the entry of that target with a non-empty backup path and a
\* non-empty snapshot path; and a failed manifest write after a successful
\* mirror or snapshot makes Execute return the error, with no call after it.
C37_BackupOnDiskBeforeDelete ==
  [][/\ pc' = "delete" =>
          LET onDisk == disk'[backupRoot'].manifest.RepoExecutions IN
          /\ loc'.i <= Len(onDisk)
          /\ onDisk[loc'.i].FullName = m'.RepoExecutions[loc'.i].FullName
          /\ onDisk[loc'.i].BackupPath # ""
          /\ onDisk[loc'.i].BrowsablePath # ""
     /\ BackupWriteFails =>
          /\ pc' = "done"
          /\ err' = "manifest write failed"
          /\ log' = log]_vars

\* A resumed delete run that found the backup path of its first target on
\* record and no snapshot path (the earlier run ended after the mirror),
\* took the snapshot, wrote it and had DeleteRepo return nil for the target.
C37_Witness ==
  /\ cfg.Mode = ModeDelete
  /\ cfg.Resume
  /\ Reported
  /\ m0.RepoExecutions[1].BackupPath # ""
  /\ m0.RepoExecutions[1].BrowsablePath = ""
  /\ \E c \in DeleteCalls : log[c].ok /\ log[c].repo = m0.RepoExecutions[1].FullName

\* The archive statuses of a manifest agree with its main statuses and its
\* mode.
ArchiveStatusSound(mf) ==
  \A k \in 1..Len(mf.RepoExecutions) :
    LET entry == mf.RepoExecutions[k] IN
    /\ entry.ArchiveStatus = "archived" =>
         entry.Status = StatusBackupOK /\ entry.BundlePath # ""
    /\ mf.Mode = ModeDelete => entry.ArchiveStatus = "skipped"

\* C38: in the manifest in memory and in every manifest file, an entry with
\* archive status archived has status backup_ok and a non-empty bundle
\* path, and every entry of a delete-mode manifest has archive status
\* skipped.
C38_ArchiveStatusSound ==
  /\ ArchiveStatusSound(m)
  /\ \A r \in Roots : ArchiveStatusSound(disk[r].manifest)

\* A backup run has published and returned, its file holding an archived
\* entry, while another backup root holds the manifest of a delete run in
\* which a target was deleted.
C38_Witness ==
  /\ cfg.Mode = ModeBackup
  /\ Reported
  /\ \E k \in 1..Len(Persisted.RepoExecutions) :
       /\ Persisted.RepoExecutions[k].ArchiveStatus = "archived"
       /\ m.RepoExecutions[k].ArchiveStatus = "archived"
  /\ \E r \in Roots :
       /\ disk[r].file
       /\ disk[r].manifest.Mode = ModeDelete
       /\ disk[r].manifest.DeletedCount > 0

\* Every entry of the manifest is settled and the result counts them all.
AllSettled ==
  /\ \A k \in 1..Len(m.RepoExecutions) :
       m.RepoExecutions[k].Status \in
         {StatusDeleted, StatusBackupFailed, StatusDeleteFailed}
  /\ result.Total = Len(m.RepoExecutions)
  /\ result.Deleted + result.Failed = result.Total

\* C39 (amended): when a delete-mode Execute that is not a dry run returns
\* without error, every entry of its manifest is deleted, backup_failed or
\* delete_failed, and the result's deleted and failed counts add up to its
\* total, the number of entries.
C39_DeleteRunSettlesAll ==
  (cfg.Mode = ModeDelete /\ Reported) => AllSettled

\* C39 as stated: the same after every delete-mode Execute that returns
\* without error, a dry run included.
C39_AnyReturnSettlesAll ==
  (cfg.Mode = ModeDelete /\ pc = "done" /\ err = "") => AllSettled

\* A delete run over two targets returned with one target deleted and the
\* other backup_failed.
C39_Witness ==
  /\ cfg.Mode = ModeDelete
  /\ Reported
  /\ result.Deleted = 1
  /\ result.Failed = 1
  /\ \E k \in 1..Len(m.RepoExecutions) : m.RepoExecutions[k].Status = StatusBackupFailed

CallsOf(op) == Cardinality({c \in 1..Len(log) : log[c].op = op})

\* The bounds on the collaborator calls of one invocation, for the plan and
\* the mode it runs with.
CallsBounded ==
  LET n == Len(plan.Repos) IN
  /\ CallsOf("mirror") <= n
  /\ CallsOf("snapshot") <= n
  /\ cfg.Mode = ModeDelete =>
       /\ CallsOf("delete") <= n * cfg.MaxDeleteRetries
       /\ CallsOf("bundle") = 0 /\ CallsOf("ensure") = 0 /\ CallsOf("publish") = 0
  /\ cfg.Mode = ModeBackup =>
       /\ CallsOf("bundle") <= n
       /\ CallsOf("ensure") <= 1
       /\ CallsOf("publish") <= 1
       /\ CallsOf("delete") = 0

Running == pc \notin {"idle", "done"}

\* The bounds hold in every state of every invocation.
C40_CallsAlwaysBounded == pc # "idle" => CallsBounded

\* C40: an invocation of Execute makes at most n mirror and n snapshot
\* calls for a plan with n targets, and in delete mode at most n times
\* cfg.MaxDeleteRetries (as defaulted) delete calls and none of the others,
\* in backup mode at most n bundle calls, one EnsureRepo and one
\* PublishBundles call and no delete call; and, its steps and the calls it
\* makes all returning, every invocation ends: Execute returns or the
\* process is gone.
C40_BoundedCallsAndTermination ==
  /\ [](pc # "idle" => CallsBounded)
  /\ Running ~> ~Running

\* A delete run with two retries configured returned after four DeleteRepo
\* calls for its two targets, two mirror calls and two snapshot calls.
C40_Witness ==
  /\ cfg.Mode = ModeDelete
  /\ cfg.MaxDeleteRetries = 2
  /\ pc = "done" /\ err = ""
  /\ Len(plan.Repos) = 2
  /\ CallsOf("mirror") = 2
  /\ CallsOf("snapshot") = 2
  /\ CallsOf("delete") = 4

(***************************************************************************)
(* Claims about the plan file                                              *)
(***************************************************************************)
\* Validate has run on a plan that Sign had signed.
CheckedSigned == ppc = "checked" /\ signed # NoPlanFile

\* C8: for every plan from New and every non-empty secret, Validate with
\* that secret succeeds right after Sign succeeded.
C8_ValidateAfterSign ==
  (CheckedSigned /\ pl = signed /\ vsecret = secret) => verr = ""

\* A signed plan of two target records, validated with the signing secret.
C8_Witness ==
  /\ CheckedSigned
  /\ pl = signed
  /\ vsecret = secret
  /\ Len(pl.Repos) = 2
  /\ newArgs.repos # pl.Repos

\* The sequences with the elements of s in another order, s included.
Reorderings(s) ==
  {[k \in 1..Len(s) |-> s[f[k]]] :
     f \in {g \in [1..Len(s) -> 1..Len(s)] : \A i, j \in 1..Len(s) : g[i] = g[j] => i = j}}

\* The plan differs from the signed one at most in the order of its target
\* records and in the letter case of its signature.
ReorderedOrRecased(a, b) ==
  /\ a.Repos \in Reorderings(b.Repos)
  /\ ToLowerHex(a.Signature) = ToLowerHex(b.Signature)
  /\ [a EXCEPT !.Repos = <<>>, !.Signature = NoHex]
       = [b EXCEPT !.Repos = <<>>, !.Signature = NoHex]

\* The secrets differ at most in trailing zero bytes.
SameUpToZeroBytes(a, b) ==
  \E n \in 0..Len(a), k \in 0..Len(b) :
    /\ SubSeq(a, 1, n) = SubSeq(b, 1, k)
    /\ \A i \in (n + 1)..Len(a) : a[i] = 0
    /\ \A i \in (k + 1)..Len(b) : b[i] = 0

\* C9 (amended): after Sign, Validate fails after every edit of the plan
\* other than a reordering of its target records or a change of letter case
\* in its signature, and Validate(secret2) fails for every secret2 that
\* differs from the signing secret in more than trailing zero bytes.
C9_EditsDetected ==
  CheckedSigned =>
    /\ ~ReorderedOrRecased(pl, signed) => verr # ""
    /\ ~SameUpToZeroBytes(vsecret, secret) => verr # ""

\* C9 as stated: every edit and every other secret make Validate fail.
C9_AnyEditDetected ==
  CheckedSigned =>
    /\ pl # signed => verr # ""
    /\ vsecret # secret => verr # ""

\* An edited target record, found out by the fingerprint.
C9_Witness ==
  /\ CheckedSigned
  /\ vsecret = secret
  /\ Len(pl.Repos) = Len(signed.Repos)
  /\ pl.Repos \notin Reorderings(signed.Repos)
  /\ verr = "fingerprint mismatch"

\* The fingerprint Sign stores for the plan New builds from the list.
FingerprintOfList(repos) ==
  ComputeFingerprint(PlanfileNew(newArgs.actor, newArgs.host, newArgs.toolVersion,
                                 repos, newArgs.now))

\* C10: the fingerprint of the plan built from a list of targets is the
\* same for every permutation of the list.
C10_FingerprintOrderFree ==
  ppc # "none" =>
    \A q \in Reorderings(newArgs.repos) : FingerprintOfList(q) = FingerprintOfList(newArgs.repos)

\* The plan New has returned, before Sign or an edit touches it.
FreshPlan == ppc = "new" /\ pl.Fingerprint = NoHex

SortedByFullName(rs) ==
  \A i, j \in 1..Len(rs) : i < j => ~StringLess(rs[j].FullName, rs[i].FullName)

NoTwoSameFullName(rs) ==
  \A i, j \in 1..Len(rs) : i # j => rs[i].FullName # rs[j].FullName

\* C11: every plan New returns has its target records sorted by full name,
\* holds no two records with the same full name, and has a count equal to
\* the number of its target records.
C11_SortedUniqueCounted ==
  FreshPlan =>
    /\ SortedByFullName(pl.Repos)
    /\ NoTwoSameFullName(pl.Repos)
    /\ pl.Count = Len(pl.Repos)

(***************************************************************************)
(* Claims about the terminal interface                                     *)
(***************************************************************************)
\* A popup is open in the running program.
PopupOpen == tpc = "running" /\ app.modalActive

\* The popup of a holds a text input, and the text typed into it so far.
HasTextInput(a) ==
  \/ a.modalKind \in {modalRestoreYesNo, modalRestoreRename, modalDeleteConfirm}
  \/ /\ a.modalKind = modalCommandForm
     /\ Len(a.formFields) > 0
     /\ CurrentField(a).kind = fieldText

TextInput(a) ==
  CASE a.modalKind = modalCommandForm -> CurrentField(a).value
    [] a.modalKind = modalDeleteConfirm -> a.deleteInput
    [] OTHER -> a.restoreState.promptInput

\* The key leaves the mode, the pane and the sort order of a as they are and
\* does not quit.
ShortcutSuspended(a, key) ==
  \A env \in EnvFor(a, key) :
    LET r == updateKey(a, key, env) IN
    /\ r.model.activeMode = a.activeMode
    /\ r.model.activePane = a.activePane
    /\ r.model.table.sortBy = a.table.sortBy
    /\ r.model.table.sortDir = a.table.sortDir
    /\ ~r.model.quitting
    /\ r.cmd # QuitCmd

\* The key is appended to the text input of the popup of a.
DeliveredToInput(a, key) ==
  \A env \in EnvFor(a, key) :
    LET r == updateKey(a, key, env) IN
    /\ r.model.modalActive
    /\ r.model.modalKind = a.modalKind
    /\ TextInput(r.model) = Append(TextInput(a), key)

\* C29: while a popup is open, no key changes the active mode, the active
\* pane or the sort order, or quits the program (the global shortcuts 1, 2, 3,
\* tab, q and the sort keys are suspended), and a printable key is appended
\* to the text input of the popup.
C29_PopupSuspendsShortcuts ==
  PopupOpen =>
    \A key \in Keys :
      /\ ShortcutSuspended(app, key)
      /\ (isPrintableKey(key) /\ HasTextInput(app)) => DeliveredToInput(app, key)

\* The delete popup is open in the running program.
InDeletePopup ==
  tpc = "running" /\ app.modalActive /\ app.modalKind = modalDeleteConfirm

\* The typed input, trimmed, is the name of the repository of the popup.
TypedName(a) == TrimSpace(a.deleteInput) = a.deleteRepo.Name

\* The status texts that report an error of the delete popup.
IsErrorStatus(s) ==
  s \in {"Error: confirmation must match repository name",
         "Error: delete callback unavailable"}

\* The delete popup of a is still open as it was.
PopupStays(a, b) ==
  /\ b.modalActive
  /\ b.modalKind = modalDeleteConfirm
  /\ b.deleteRepo = a.deleteRepo
  /\ b.deleteInput = a.deleteInput

\* C30: the delete popup is opened for the highlighted repository; in it the
\* Delete callback is dispatched only by enter with a typed input that,
\* trimmed, equals the name of that repository, and then for that repository;
\* enter with any other input dispatches no command, sets an error status and
\* leaves the popup open; esc closes the popup and dispatches nothing.
C30_DeleteNeedsTypedName ==
  /\ (tpc = "running" /\ ~app.modalActive) =>
       \A key \in Keys : \A env \in EnvFor(app, key) :
         LET r == updateKey(app, key, env) IN
         r.model.modalKind = modalDeleteConfirm =>
           /\ key = "enter"
           /\ currentRepo(app.table).ok
           /\ r.model.deleteRepo = currentRepo(app.table).repo
           /\ r.model.deleteInput = <<>>
           /\ ~IsCommand(r.cmd)
  /\ InDeletePopup =>
       \A key \in Keys : \A env \in EnvFor(app, key) :
         LET r == updateKey(app, key, env) IN
         /\ r.cmd.run = "Delete" =>
              /\ key = "enter"
              /\ TypedName(app)
              /\ r.cmd.repo = app.deleteRepo
         /\ (key = "enter" /\ TypedName(app) /\ app.callbacks.Delete) =>
              r.cmd.run = "Delete"
         /\ (key = "enter" /\ ~TypedName(app)) =>
              /\ r.cmd = NilCmd
              /\ IsErrorStatus(r.model.status)
              /\ PopupStays(app, r.model)
         /\ key = "esc" =>
              /\ r.cmd = NilCmd
              /\ ~r.model.modalActive
              /\ ~r.model.busy

\* The second row was highlighted, the popup opened, the name typed and
\* enter pressed: the Delete callback is running for a/v.
C30_Witness ==
  /\ tpc = "running"
  /\ cmd = CallbackCmd("Delete", TableRepoV, TRUE)
  /\ inflight.command = cmd
  /\ app.busy
  /\ ~app.modalActive


====
